---- MODULE Spec2Model ----
(***************************************************************************)
(* A model of the SEC ingestion pipeline of this repository                *)
(* (utils/populate_daily_values.py and the ORM models it writes to).       *)
(*                                                                         *)
(* Part 1: the sharding functions, as pure operators on file lists.        *)
(* Part 2: the SQLite store (tables, unique constraints, one writer at a   *)
(*         time, commit/rollback) and the get-or-create helpers.           *)
(* Part 3: the payload flattening (companyfacts, submissions).             *)
(* Part 4: the worker loop of _run, one action per statement group, for    *)
(*         several worker processes and a first run followed by a rerun.   *)
(***************************************************************************)
EXTENDS Integers, Sequences, FiniteSets, TLC

VARIABLES
    \* ---- sharding check (Part 1)
    shFiles,      \* the sorted file list handed to the sharding functions
    shWorkers,    \* the worker count N
    shOut,        \* worker index -> shard computed by _chunked_files
    shChunks,     \* result of _split_into_chunks, or <<>> before the call
    shSplit,      \* TRUE once _split_into_chunks has been called
    \* ---- the ingestion (Parts 2 to 4)
    run,          \* "first" or "rerun"
    nworkers,     \* --workers of the current run
    files,        \* the sorted list of file keys under raw_data/
    db,           \* the committed contents of the SQLite file
    txn,          \* the working copy of the writer (the process holding the write lock)
    lock,         \* the process holding SQLite's write lock, or NoLock
    pc,           \* per worker process: where it is in _run
    shard,        \* per worker: its files (_chunked_files)
    idx,          \* per worker: position in shard of the file at hand
    processed,    \* per worker: the processed set loaded at start, plus its own
    cache,        \* per worker: entity_cache, unit_cache, value_name_cache, date_cache
    cur,          \* per worker: the locals of the file at hand
    skipped,      \* per worker: <<file key, reason>> logged by _log_unprocessed
    errored,      \* per worker: <<file key, exception>> of the except branches
    dvAtRerun,    \* daily_values as committed when the rerun started
    exitCodes,    \* per worker: the exit code main() collected in the first run
    faulted,      \* TRUE once a commit has failed for a reason outside the program
    \* ---- identifier normalisation and strict resolution (Part 5)
    normFn,       \* the normalisation function under test
    normArg,      \* its first argument: [scheme, value], both texts
    normRes,      \* the results of its successive applications, oldest first
    idStore,      \* the store get_or_create_entity_by_identifier works on
    idCalls,      \* the calls made so far: [scheme, value, raised, entity_id]
    \* ---- the sliding-window rate limiter (Part 6)
    rlMax,        \* max_requests
    rlWindow,     \* window_seconds, in clock ticks
    rlClock,      \* time.monotonic(), in ticks
    rlEvents,     \* the deque _events of granted timestamps
    rlThread,     \* per thread: [pc, now, wake] inside acquire()
    rlGrants,     \* the clock readings at which acquire() returned
    \* ---- one HTTP fetch, _request (Part 7)
    httpMax,      \* max_attempts
    httpPc,       \* where the call is: "start", "attempt", "backoff", "done"
    httpAttempt,  \* the loop variable attempt
    httpLog,      \* what s.get() gave on each attempt so far
    httpResult,   \* "none", "SecResponse", or the exception raised
    httpSlept,    \* half seconds slept between the attempts so far
    \* ---- the background jobs of the web tier (Part 8)
    jobImpl,      \* which job: "manager" (PopulateDailyValuesJob), "recreate"
                  \* (RecreateSqliteDbJob) or "routes" (the handlers of api/routes.py)
    jobFlags,     \* the job state under its lock: [running, stop_requested, proc]
    jobReq,       \* per request thread calling start(): [pc, ret, saw]
    jobRun,       \* the runner threads started so far: [pc, work]
    jobStop,      \* the thread handling stop requests: [pc, proc, left]
    \* ---- one pass of the SEC API ingest job, run_ingest (Part 9)
    sfArgs,       \* the arguments: [limit, workers, form_types]
    sfDb,         \* the committed sec_filings table: id -> row
    sfSess,       \* the rows as the session of the run holds them
    sfFut,        \* the futures of the thread pool, one per selected filing
    sfRun,        \* [pc, selected, handled, fetched, failed, summary]
    \* ---- the SEC Atom feed poller, run_poll (Part 10)
    pollDb,       \* the committed sec_filings rows, oldest first
    pollRun,      \* the poll at hand, or the last one [pc, entries, i, pending, ...]
    pollCount,    \* the number of polls started so far
    \* ---- the versioned JSON API, /api/v1 (Part 11)
    apiStore,     \* the sec_filings rows the handlers read
    apiReq,       \* the request at hand [pc, path, q, form_type, cik, ...]
    apiResp,      \* the response to it [status, mimetype, keys, source, results]
    apiEfts,      \* the number of calls of fetch_efts_search so far
    apiCount,     \* the number of requests received so far
    \* ---- the admin page: the populate job and the recreate-DB job side by side
    popJob,       \* populate_daily_values_job, its state, recorded process and runner
    recJob,       \* recreate_sqlite_db_job, its state and runner
    adminLeft     \* requests the admin page may still receive

shardVars == <<shFiles, shWorkers, shOut, shChunks, shSplit>>

ingVars == <<run, nworkers, files, db, txn, lock, pc, shard, idx, processed,
             cache, cur, skipped, errored, dvAtRerun, exitCodes, faulted>>

normVars == <<normFn, normArg, normRes, idStore, idCalls>>

limVars == <<rlMax, rlWindow, rlClock, rlEvents, rlThread, rlGrants>>

\* The variables outside the sharding and the ingestion.
httpVars == <<httpMax, httpPc, httpAttempt, httpLog, httpResult, httpSlept>>

jobVars == <<jobImpl, jobFlags, jobReq, jobRun, jobStop>>

secVars == <<sfArgs, sfDb, sfSess, sfFut, sfRun>>

pollVars == <<pollDb, pollRun, pollCount>>

apiVars == <<apiStore, apiReq, apiResp, apiEfts, apiCount>>

admVars == <<popJob, recJob, adminLeft>>

auxVars == <<normVars, limVars, httpVars, jobVars, secVars, pollVars, apiVars, admVars>>

\* The variables a part leaves alone.
otherThanNorm == <<shardVars, ingVars, limVars, httpVars, jobVars, secVars,
    pollVars,
    apiVars,
    admVars>>
otherThanLim == <<shardVars, ingVars, normVars, httpVars, jobVars, secVars,
    pollVars,
    apiVars,
    admVars>>
otherThanHttp == <<shardVars, ingVars, normVars, limVars, jobVars, secVars,
    pollVars,
    apiVars,
    admVars>>
otherThanJob == <<shardVars, ingVars, normVars, limVars, httpVars, secVars,
    pollVars,
    apiVars,
    admVars>>
otherThanSec == <<shardVars, ingVars, normVars, limVars, httpVars, jobVars,
    pollVars,
    apiVars,
    admVars>>
otherThanAdm ==
    <<shardVars, ingVars, normVars, limVars, httpVars, jobVars, secVars, pollVars, apiVars>>
otherThanApi ==
    <<shardVars, ingVars, normVars, limVars, httpVars, jobVars, secVars, pollVars,
      admVars>>
otherThanPoll ==
    <<shardVars, ingVars, normVars, limVars, httpVars, jobVars, secVars, apiVars,
      admVars>>

vars == <<shardVars, ingVars, auxVars>>

\* The values of a group of variables while another part is exercised.
NormCallIdle == normFn = "" /\ normArg = <<>> /\ normRes = <<>>

ResolveIdle == idStore = <<>> /\ idCalls = <<>>

NormIdle == NormCallIdle /\ ResolveIdle

LimIdle ==
    /\ rlMax = 0 /\ rlWindow = 0 /\ rlClock = 0
    /\ rlEvents = <<>> /\ rlThread = <<>> /\ rlGrants = <<>>

HttpIdle ==
    /\ httpMax = 0 /\ httpPc = "" /\ httpAttempt = 0
    /\ httpLog = <<>> /\ httpResult = "" /\ httpSlept = 0

JobIdle ==
    /\ jobImpl = "" /\ jobFlags = <<>> /\ jobReq = <<>>
    /\ jobRun = <<>> /\ jobStop = <<>>

SecIdle ==
    /\ sfArgs = <<>> /\ sfDb = <<>> /\ sfSess = <<>>
    /\ sfFut = <<>> /\ sfRun = <<>>

PollIdle ==
    /\ pollDb = <<>>
    /\ pollRun = <<>>
    /\ pollCount = 0

ApiIdle ==
    /\ apiStore = {}
    /\ apiReq = <<>>
    /\ apiResp = <<>>
    /\ apiEfts = 0
    /\ apiCount = 0

AdmIdle ==
    /\ popJob = <<>>
    /\ recJob = <<>>
    /\ adminLeft = 0

AuxIdle == NormIdle /\ LimIdle /\ HttpIdle /\ JobIdle /\ SecIdle /\ PollIdle /\ ApiIdle /\ AdmIdle

(***************************************************************************)
(* Generic helpers.                                                        *)
(***************************************************************************)
Range(s) == {s[i] : i \in DOMAIN s}

Put(f, k, v) == [x \in (DOMAIN f) \cup {k} |-> IF x = k THEN v ELSE f[x]]

EmptyMap == [x \in {} |-> 0]

MaxOf(S) == IF S = {} THEN 0 ELSE CHOOSE m \in S : \A x \in S : x <= m

(***************************************************************************)
(* The worker processes of a run: worker indices 0..MaxWorkers-1.  NoLock  *)
(* is the value of lock when no process holds SQLite's write lock (an      *)
(* index no worker has).                                                   *)
(***************************************************************************)
MaxWorkers == 2
Workers == 0..(MaxWorkers - 1)
NoLock == MaxWorkers

(***************************************************************************)
(* Part 1.  Sharding.                                                      *)
(***************************************************************************)
\* Bounds of the sharding check.
MaxShardFiles == 4
MaxShardWorkers == 4

\* [t for i, t in enumerate(files) if (i % workers) == worker_index];
\* Python's i is 0-based, the sequence position p is i + 1.
RECURSIVE PickRoundRobin(_, _, _, _)
PickRoundRobin(file_list, workers, worker_index, p) ==
    IF p > Len(file_list) THEN <<>>
    ELSE (IF ((p - 1) % workers) = worker_index THEN <<file_list[p]>> ELSE <<>>)
         \o PickRoundRobin(file_list, workers, worker_index, p + 1)

\* Stands for the ValueError raised by _chunked_files.
ValueErrorShard == <<-1>>

ChunkedFilesSkipOne(file_list, workers, worker_index) ==
    IF workers <= 1 THEN file_list
    ELSE IF worker_index < 0 \/ worker_index >= workers THEN ValueErrorShard
    ELSE PickRoundRobin(file_list, workers, (worker_index + 1) % workers, 1)

ChunkedFiles(file_list, workers, worker_index) ==
    IF workers <= 1 THEN file_list
    ELSE IF worker_index < 0 \/ worker_index >= workers THEN ValueErrorShard
    ELSE PickRoundRobin(file_list, workers, worker_index, 1)

\* _split_into_chunks: chunks[i % workers].append(t) for each file in order.
\* The result is indexed 1..workers (chunk of worker index wi at wi + 1).
RECURSIVE AppendRoundRobin(_, _, _, _)
AppendRoundRobin(chunks, file_list, workers, p) ==
    IF p > Len(file_list) THEN chunks
    ELSE AppendRoundRobin(
             [chunks EXCEPT ![((p - 1) % workers) + 1] = Append(@, file_list[p])],
             file_list, workers, p + 1)

SplitIntoChunks(file_list, workers) ==
    IF workers <= 1 THEN <<file_list>>
    ELSE AppendRoundRobin([i \in 1..workers |-> <<>>], file_list, workers, 1)

\* Sorted lists of distinct files: strictly increasing sequences of file numbers.
SortedLists(n) ==
    {s \in UNION {[1..k -> 1..n] : k \in 0..n} :
        \A i \in 1..Len(s) : \A j \in 1..Len(s) : i < j => s[i] < s[j]}

\* The ingestion variables while only the sharding functions are exercised.
IngestIdle ==
    /\ run = "first" /\ nworkers = 1 /\ files = <<>>
    /\ db = <<>> /\ txn = <<>> /\ lock = NoLock
    /\ pc = <<>> /\ shard = <<>> /\ idx = <<>> /\ processed = <<>>
    /\ cache = <<>> /\ cur = <<>> /\ skipped = <<>> /\ errored = <<>>
    /\ dvAtRerun = {} /\ exitCodes = <<>> /\ faulted = FALSE

\* Marks a shard not computed yet: no file has number 0.
NotYet == <<0>>

ShardInit ==
    /\ IngestIdle
    /\ AuxIdle
    /\ shFiles \in SortedLists(MaxShardFiles)
    /\ shWorkers \in 1..MaxShardWorkers
    /\ shOut = [wi \in 0..(shWorkers - 1) |-> NotYet]
    /\ shChunks = <<>>
    /\ shSplit = FALSE

\* One worker process computes its shard (the call in _run).
ShardWorker(wi) ==
    /\ shOut[wi] = NotYet
    /\ shOut' = [shOut EXCEPT ![wi] = ChunkedFiles(shFiles, shWorkers, wi)]
    /\ UNCHANGED <<shFiles, shWorkers, shChunks, shSplit>>

\* The parent's call of _split_into_chunks.
ShardSplit ==
    /\ ~shSplit
    /\ shChunks' = SplitIntoChunks(shFiles, shWorkers)
    /\ shSplit' = TRUE
    /\ UNCHANGED <<shFiles, shWorkers, shOut>>

ShardNext ==
    /\ \/ \E wi \in 0..(shWorkers - 1) : ShardWorker(wi)
       \/ ShardSplit
    /\ UNCHANGED <<ingVars, auxVars>>

SpecShard == ShardInit /\ [][ShardNext]_vars

\* Number of positions of sequence s that hold x.
Occurrences(s, x) == Cardinality({i \in DOMAIN s : s[i] = x})

AllShardsComputed == \A wi \in DOMAIN shOut : shOut[wi] # NotYet

\* C4: for every worker count N >= 1 and every sorted file list, the shards of
\* worker indices 0..N-1 are pairwise disjoint and together hold every file of
\* the list exactly once (for _chunked_files, and for _split_into_chunks too).
C4_ShardsPartition ==
    /\ \A wi \in DOMAIN shOut : \A wj \in DOMAIN shOut :
           (wi # wj /\ shOut[wi] # NotYet /\ shOut[wj] # NotYet)
               => Range(shOut[wi]) \cap Range(shOut[wj]) = {}
    /\ AllShardsComputed =>
           \A f \in 1..MaxShardFiles :
               LET total == LET RECURSIVE Sum(_)
                                Sum(k) == IF k < 0 THEN 0
                                          ELSE Occurrences(shOut[k], f) + Sum(k - 1)
                            IN Sum(shWorkers - 1)
               IN total = Occurrences(shFiles, f)
    /\ shSplit =>
           /\ Len(shChunks) = shWorkers
           /\ \A wi \in DOMAIN shOut :
                  shOut[wi] # NotYet => shChunks[wi + 1] = shOut[wi]

C4_Witness ==
    /\ AllShardsComputed
    /\ shSplit
    /\ shWorkers = 3
    /\ Len(shFiles) = 4
    /\ Len(shOut[0]) = 2

(***************************************************************************)
(* Part 2.  The store: the tables of models/*.py, with SQLite's rowid      *)
(* allocation and the unique constraints the models declare.  NULL is 0    *)
(* for an id and "None" for a string.                                      *)
(***************************************************************************)
None == "None"

EmptyStore ==
    [units |-> {}, value_names |-> {}, dates |-> {}, entities |-> {},
     identifiers |-> {}, metadata |-> {}, daily_values |-> {},
     file_processing |-> {}]

\* INTEGER PRIMARY KEY without AUTOINCREMENT: the new rowid is the largest
\* rowid of the table plus one, so the id of a rolled-back row is handed out again.
NextId(rows) == MaxOf({r.id : r \in rows}) + 1

\* session.query(Unit).filter_by(name=...).first(): the id, or 0.
UnitIdByName(store, name) ==
    IF \E r \in store.units : r.name = name
    THEN (CHOOSE r \in store.units : r.name = name).id ELSE 0

\* units.name is unique: the INSERT raises IntegrityError on a second row.
UnitInsertFails(store, name) == \E r \in store.units : r.name = name

UnitInsert(store, name) ==
    [store EXCEPT !.units = @ \cup {[id |-> NextId(@), name |-> name]}]

\* dates.date is unique.
DateIdByDate(store, d) ==
    IF \E r \in store.dates : r.date = d
    THEN (CHOOSE r \in store.dates : r.date = d).id ELSE 0

DateInsertFails(store, d) == \E r \in store.dates : r.date = d

DateInsert(store, d) ==
    [store EXCEPT !.dates = @ \cup {[id |-> NextId(@), date |-> d]}]

\* value_names.name is unique; the unit hangs on the value name.
ValueNameByName(store, name) ==
    IF \E r \in store.value_names : r.name = name
    THEN CHOOSE r \in store.value_names : r.name = name
    ELSE [id |-> 0, name |-> name, unit_id |-> 0]

ValueNameInsertFails(store, name) == \E r \in store.value_names : r.name = name

ValueNameInsert(store, name, unit_id) ==
    [store EXCEPT !.value_names =
        @ \cup {[id |-> NextId(@), name |-> name, unit_id |-> unit_id]}]

\* value_name.unit_id = unit_id; flush (the backfill UPDATE).
ValueNameSetUnit(store, id, unit_id) ==
    [store EXCEPT !.value_names =
        {IF r.id = id THEN [r EXCEPT !.unit_id = unit_id] ELSE r : r \in @}]

\* entity_identifiers: unique on (scheme, value).
IdentifierBy(store, scheme, value) ==
    IF \E r \in store.identifiers : r.scheme = scheme /\ r.value = value
    THEN CHOOSE r \in store.identifiers : r.scheme = scheme /\ r.value = value
    ELSE [id |-> 0, entity_id |-> 0, scheme |-> scheme, value |-> value]

IdentifierInsertFails(store, scheme, value) ==
    \E r \in store.identifiers : r.scheme = scheme /\ r.value = value

IdentifierInsert(store, entity_id, scheme, value) ==
    [store EXCEPT !.identifiers =
        @ \cup {[id |-> NextId(@), entity_id |-> entity_id,
                 scheme |-> scheme, value |-> value]}]

\* entities: no unique column besides the random canonical_uuid.
EntityExists(store, id) == \E r \in store.entities : r.id = id

EntityInsert(store, cik) ==
    [store EXCEPT !.entities = @ \cup {[id |-> NextId(@), cik |-> cik]}]

\* entity_metadata: entity_id is the primary key.
MetadataExists(store, entity_id) ==
    \E r \in store.metadata : r.entity_id = entity_id

MetadataOf(store, entity_id) ==
    CHOOSE r \in store.metadata : r.entity_id = entity_id

MetadataInsert(store, entity_id) ==
    [store EXCEPT !.metadata =
        @ \cup {[entity_id |-> entity_id, company_name |-> None, sic |-> None]}]

\* daily_values: unique on (entity_id, date_id, value_name_id).
DailyValueExists(store, row) ==
    \E r \in store.daily_values :
        /\ r.entity_id = row.entity_id
        /\ r.date_id = row.date_id
        /\ r.value_name_id = row.value_name_id

\* A variant that stores every row of the batch, duplicates included.
RECURSIVE InsertDailyValuesKeepAll(_, _)
InsertDailyValuesKeepAll(store, rows) ==
    IF rows = <<>> THEN store
    ELSE InsertDailyValuesKeepAll(
             [store EXCEPT !.daily_values = @ \cup {Head(rows)}], Tail(rows))

\* A variant with INSERT OR REPLACE: the later row takes the place of the row
\* stored under its key.
RECURSIVE InsertDailyValuesReplace(_, _)
InsertDailyValuesReplace(store, rows) ==
    IF rows = <<>> THEN store
    ELSE InsertDailyValuesReplace(
             [store EXCEPT !.daily_values =
                  {r \in @ : ~(/\ r.entity_id = Head(rows).entity_id
                               /\ r.date_id = Head(rows).date_id
                               /\ r.value_name_id = Head(rows).value_name_id)}
                      \cup {Head(rows)}],
             Tail(rows))

\* _insert_daily_values_ignore_bulk: INSERT OR IGNORE of the rows in order; a
\* row whose key is already present (in the table, or earlier in the batch) is
\* dropped.  The chunking into statements of at most
\* max_rows_per_chunk rows does not change the result and is not modelled.
RECURSIVE InsertDailyValuesIgnoreBulk(_, _)
InsertDailyValuesIgnoreBulk(store, rows) ==
    IF rows = <<>> THEN store
    ELSE InsertDailyValuesIgnoreBulk(
             IF DailyValueExists(store, Head(rows)) THEN store
             ELSE [store EXCEPT !.daily_values = @ \cup {Head(rows)}],
             Tail(rows))

\* _mark_file_processed: INSERT OR IGNORE on (entity_id, source_file).
MarkFileProcessed(store, entity_id, source_file) ==
    [store EXCEPT !.file_processing =
        @ \cup {[entity_id |-> entity_id, source_file |-> source_file]}]

\* _load_processed_file_keys
LoadProcessedFileKeys(store) == {r.source_file : r \in store.file_processing}


(***************************************************************************)
(* Part 3.  Payloads and their flattening.                                 *)
(*                                                                         *)
(* A JSON value is a tagged record: [t |-> "null"], [t |-> "int", v |-> n] *)
(* or [t |-> "str", s |-> "..."].  A companyfacts payload lists its        *)
(* metrics in dict order, facts[i] = [name |-> "namespace.metric",         *)
(* units |-> <<[unit |-> u, points |-> <<[end, val]>>]>>]; a submissions   *)
(* payload gives the place of its arrays (shape) and the arrays.           *)
(***************************************************************************)
JNull == [t |-> "null"]
JInt(n) == [t |-> "int", v |-> n]
JStr(x) == [t |-> "str", s |-> x]

\* _safe_str for the primitive values of the payloads (None -> "", str(val)
\* otherwise); the cut at max_len characters is not reached by these values.
SafeStr(val) ==
    CASE val.t = "null" -> ""
      [] val.t = "str" -> val.s
      [] val.t = "int" -> ToString(val.v)

\* parse_ymd_date (date.fromisoformat): the dates that parse.
ValidDates == {"2020-12-31", "2021-12-31", "2022-12-31"}
\* A variant that takes any non-empty string for a date.
IsYmdLenient(date_str) == date_str \notin {None, ""}

IsYmd(date_str) == date_str \in ValidDates

\* (name or "NA").strip() or "NA", on the unit names of the payloads.
UnitKey(unit_name) ==
    IF unit_name \in {None, "", " "} THEN "NA" ELSE unit_name

\* iter_companyfacts_points: (value_name, unit, end, val) for every point with
\* a truthy end, metric by metric, unit by unit, in payload order.
RECURSIVE PointsOfList(_, _, _)
PointsOfList(name, unit, points) ==
    IF points = <<>> THEN <<>>
    ELSE (IF Head(points).end \in {None, ""} THEN <<>>
          ELSE <<[value_name |-> name, unit |-> unit,
                  date |-> Head(points).end, val |-> Head(points).val]>>)
         \o PointsOfList(name, unit, Tail(points))

RECURSIVE PointsOfUnits(_, _)
PointsOfUnits(name, units) ==
    IF units = <<>> THEN <<>>
    ELSE PointsOfList(name, Head(units).unit, Head(units).points)
         \o PointsOfUnits(name, Tail(units))

RECURSIVE IterCompanyfactsPoints(_)
IterCompanyfactsPoints(facts) ==
    IF facts = <<>> THEN <<>>
    ELSE PointsOfUnits(Head(facts).name, Head(facts).units)
         \o IterCompanyfactsPoints(Tail(facts))

\* _resolve_recent_payload: the schema name; the recent dict is data.recent
\* for "full_submissions" and the payload's own arrays for "flattened_recent".
ResolveRecentSchema(data) ==
    IF data.shape = "full" THEN "full_submissions"
    ELSE IF data.shape = "flat" /\ data.recent.hasFilingDate
            /\ \E i \in DOMAIN data.recent.fields :
                   data.recent.fields[i].key \in {"accessionNumber", "form"}
         THEN "flattened_recent"
    ELSE "unknown"

\* _is_nonempty_dict(recent) for the resolved payload.
RecentIsNonEmpty(data) ==
    /\ ResolveRecentSchema(data) # "unknown"
    /\ (data.recent.hasFilingDate \/ data.recent.hasReportDate
        \/ data.recent.fields # <<>>)

\* A variant that prefers the report date to the filing date.
DateForIndexReportFirst(recent, i) ==
    IF recent.hasReportDate /\ i <= Len(recent.reportDate)
       /\ recent.reportDate[i] \notin {None, ""}
    THEN recent.reportDate[i]
    ELSE IF recent.hasFilingDate /\ i <= Len(recent.filingDate)
            /\ recent.filingDate[i] \notin {None, ""}
    THEN recent.filingDate[i]
    ELSE None

\* _date_for_index (i is the 1-based position here).
DateForIndex(recent, i) ==
    IF recent.hasFilingDate /\ i <= Len(recent.filingDate)
       /\ recent.filingDate[i] \notin {None, ""}
    THEN recent.filingDate[i]
    ELSE IF recent.hasReportDate /\ i <= Len(recent.reportDate)
            /\ recent.reportDate[i] \notin {None, ""}
    THEN recent.reportDate[i]
    ELSE None

\* f"submissions.recent.{key}"
SubmissionsValueName(key) ==
    CASE key = "form" -> "submissions.recent.form"
      [] key = "accessionNumber" -> "submissions.recent.accessionNumber"

RECURSIVE PointsOfArray(_, _, _, _)
PointsOfArray(recent, key, arr, i) ==
    IF i > Len(arr) THEN <<>>
    ELSE <<[value_name |-> SubmissionsValueName(key), unit |-> "NA",
            date |-> DateForIndex(recent, i), val |-> arr[i]]>>
         \o PointsOfArray(recent, key, arr, i + 1)

\* iter_submissions_recent_points: every entry of every array other than
\* filingDate / reportDate, with the date of its index (None when there is none).
RECURSIVE PointsOfFields(_, _)
PointsOfFields(recent, fields) ==
    IF fields = <<>> THEN <<>>
    ELSE PointsOfArray(recent, Head(fields).key, Head(fields).arr, 1)
         \o PointsOfFields(recent, Tail(fields))

IterSubmissionsRecentPoints(recent) == PointsOfFields(recent, recent.fields)


(***************************************************************************)
(* CIK normalisation, for the integer CIKs of the payloads and the digits  *)
(* of the file names: str(int(raw)).zfill(10).  A normalised CIK is a      *)
(* sequence of digits; <<>> stands for None.                               *)
(***************************************************************************)
CikWidth == 10
NoCik == -1

RECURSIVE DigitsOf(_)
DigitsOf(n) == IF n < 10 THEN <<n>> ELSE Append(DigitsOf(n \div 10), n % 10)

RECURSIVE ZFill(_, _)
ZFill(digits, width) ==
    IF Len(digits) >= width THEN digits ELSE ZFill(<<0>> \o digits, width)

NormalizeCik(raw) == IF raw = NoCik THEN <<>> ELSE ZFill(DigitsOf(raw), CikWidth)

(***************************************************************************)
(* The files under raw_data/ that the scenarios draw from.  A file is      *)
(* [key (its _source_file_key: "<source>:<path under raw_data/>"), source  *)
(* (folder), fnameCik (the number in a CIK<digits>.json name, NoCik        *)
(* otherwise), data (the parsed payload)].                                 *)
(***************************************************************************)
NoRecent ==
    [hasFilingDate |-> FALSE, filingDate |-> <<>>,
     hasReportDate |-> FALSE, reportDate |-> <<>>, fields |-> <<>>]

Payload(kind, cik, name, sic, facts, shape, recent) ==
    [kind |-> kind, cik |-> cik, name |-> name, sic |-> sic,
     facts |-> facts, shape |-> shape, recent |-> recent]

\* companyfacts of CIK 1: two Assets points in USD on the same end date, and
\* one Assets point filed under a blank unit.
CF1 ==
    [key |-> "companyfacts:companyfacts/CIK0000000001.json", source |-> "companyfacts",
     fnameCik |-> 1,
     data |-> Payload("dict", 1, "ACME", None,
        <<[name |-> "us-gaap.Assets",
           units |-> <<[unit |-> "USD",
                        points |-> <<[end |-> "2020-12-31", val |-> JInt(10)],
                                     [end |-> "2020-12-31", val |-> JInt(11)]>>],
                       [unit |-> "",
                        points |-> <<[end |-> "2021-12-31", val |-> JInt(12)]>>]>>]>>,
        "none", NoRecent)]

\* companyfacts of CIK 2 (CIK only in the file name): one point without a
\* recognised unit, one without an end date, one whose end date does not parse,
\* and a metric without units.
CF2 ==
    [key |-> "companyfacts:companyfacts/CIK0000000002.json", source |-> "companyfacts",
     fnameCik |-> 2,
     data |-> Payload("dict", NoCik, "BETA", None,
        <<[name |-> "dei.Shares",
           units |-> <<[unit |-> " ",
                        points |-> <<[end |-> "2020-12-31", val |-> JInt(5)],
                                     [end |-> None, val |-> JInt(6)],
                                     [end |-> "n/a", val |-> JInt(7)]>>]>>],
          [name |-> "dei.Float", units |-> <<>>]>>,
        "none", NoRecent)]

\* companyfacts of CIK 3 with an empty facts object.
CF3 ==
    [key |-> "companyfacts:companyfacts/CIK0000000003.json", source |-> "companyfacts",
     fnameCik |-> 3,
     data |-> Payload("dict", 3, "GAMMA", None, <<>>, "none", NoRecent)]

\* companyfacts of CIK 5: two Assets points, the later end date first.
CF5 ==
    [key |-> "companyfacts:companyfacts/CIK0000000005.json", source |-> "companyfacts",
     fnameCik |-> 5,
     data |-> Payload("dict", 5, "EPSILON", None,
        <<[name |-> "us-gaap.Assets",
           units |-> <<[unit |-> "USD",
                        points |-> <<[end |-> "2022-12-31", val |-> JInt(1)],
                                     [end |-> "2020-12-31", val |-> JInt(2)]>>]>>]>>,
        "none", NoRecent)]

\* companyfacts of CIK 1 once more, in raw_data/archive/companyfacts/ (the
\* source is the name of the folder the file lies in): the Assets point of
\* 2020-12-31 in USD with another value.
CF6 ==
    [key |-> "companyfacts:archive/companyfacts/CIK0000000001.json",
     source |-> "companyfacts",
     fnameCik |-> 1,
     data |-> Payload("dict", 1, "ACME", None,
        <<[name |-> "us-gaap.Assets",
           units |-> <<[unit |-> "USD",
                        points |-> <<[end |-> "2020-12-31", val |-> JInt(99)]>>]>>]>>,
        "none", NoRecent)]

\* A file that is not valid JSON (json.load raises).
BAD ==
    [key |-> "companyfacts:companyfacts/Bad.json", source |-> "companyfacts",
     fnameCik |-> NoCik,
     data |-> Payload("corrupt", NoCik, None, None, <<>>, "none", NoRecent)]

\* A JSON file whose top level is a list.
LST ==
    [key |-> "other:other/List.json", source |-> "other", fnameCik |-> NoCik,
     data |-> Payload("list", NoCik, None, None, <<>>, "none", NoRecent)]

\* A dict without a cik, under a name that gives none.
NOC ==
    [key |-> "other:other/nocik.json", source |-> "other", fnameCik |-> NoCik,
     data |-> Payload("dict", NoCik, "DELTA", None, <<>>, "none", NoRecent)]

\* A well-formed payload in a folder no handler knows.
OTH ==
    [key |-> "other:other/CIK0000000003.json", source |-> "other", fnameCik |-> 3,
     data |-> Payload("dict", 3, "GAMMA", None, <<>>, "none", NoRecent)]

\* submissions of CIK 1, full shape, with neither filingDate nor reportDate.
SUB1 ==
    [key |-> "submissions:submissions/CIK0000000001.json", source |-> "submissions",
     fnameCik |-> 1,
     data |-> Payload("dict", 1, "Acme Corp", "3990", <<>>, "full",
        [hasFilingDate |-> FALSE, filingDate |-> <<>>,
         hasReportDate |-> FALSE, reportDate |-> <<>>,
         fields |-> <<[key |-> "form", arr |-> <<JStr("10-K")>>]>>])]

\* submissions of CIK 2, full shape: the second filing has only a report date.
SUB2 ==
    [key |-> "submissions:submissions/CIK0000000002.json", source |-> "submissions",
     fnameCik |-> 2,
     data |-> Payload("dict", 2, "Beta Inc", "7370", <<>>, "full",
        [hasFilingDate |-> TRUE, filingDate |-> <<"2020-12-31", "">>,
         hasReportDate |-> TRUE, reportDate |-> <<"2020-12-31", "2021-12-31">>,
         fields |-> <<[key |-> "form", arr |-> <<JStr("10-K"), JStr("8-K")>>]>>])]

\* submissions of CIK 3 in the flattened shape, without a filingDate array.
SUB3 ==
    [key |-> "submissions:submissions/CIK0000000003.json", source |-> "submissions",
     fnameCik |-> 3,
     data |-> Payload("dict", 3, "Gamma Ltd", None, <<>>, "flat",
        [hasFilingDate |-> FALSE, filingDate |-> <<>>,
         hasReportDate |-> FALSE, reportDate |-> <<>>,
         fields |-> <<[key |-> "form", arr |-> <<JStr("10-Q")>>]>>])]

\* submissions of CIK 4 in the flattened shape, with its filingDate array.
SUB4 ==
    [key |-> "submissions:submissions/CIK0000000004.json", source |-> "submissions",
     fnameCik |-> 4,
     data |-> Payload("dict", 4, None, None, <<>>, "flat",
        [hasFilingDate |-> TRUE, filingDate |-> <<"2021-12-31">>,
         hasReportDate |-> FALSE, reportDate |-> <<>>,
         fields |-> <<[key |-> "form", arr |-> <<JStr("10-K")>>]>>])]

\* submissions of CIK 6, full shape, four filings: two filed on the same day
\* (the first with another report date), one with a report date only, one
\* with no date at all.
SUB6 ==
    [key |-> "submissions:submissions/CIK0000000006.json", source |-> "submissions",
     fnameCik |-> 6,
     data |-> Payload("dict", 6, None, None, <<>>, "full",
        [hasFilingDate |-> TRUE,
         filingDate |-> <<"2020-12-31", "2020-12-31", "", "">>,
         hasReportDate |-> TRUE,
         reportDate |-> <<"2022-12-31", "2021-12-31", "2021-12-31">>,
         fields |-> <<[key |-> "form",
                       arr |-> <<JStr("10-K"), JStr("8-K"), JStr("10-Q"), JStr("4")>>],
                      [key |-> "accessionNumber",
                       arr |-> <<JStr("a-1"), JStr("a-2"), JStr("a-3"), JStr("a-4")>>]>>])]

AllFiles ==
    {BAD, CF1, CF2, CF3, CF5, CF6, LST, NOC, OTH, SUB1, SUB2, SUB3, SUB4, SUB6}

FileByKey(k) == CHOOSE f \in AllFiles : f.key = k


(***************************************************************************)
(* Part 4.  The worker processes of one run of main(), and a rerun.        *)
(*                                                                         *)
(* SQLite lets one connection write at a time: the first INSERT / UPDATE   *)
(* of a transaction takes the write lock and holds it until COMMIT or      *)
(* ROLLBACK; a connection that finds the lock taken waits (busy_timeout),  *)
(* which is the guard CanWrite (waits are taken to end within the          *)
(* timeout).  A SELECT outside a write transaction reads the committed     *)
(* store; the writer reads its own working copy.                           *)
(***************************************************************************)
\* raw_data/ in sorted order (source folder, path, file name).
FileOrder ==
    <<CF6.key, BAD.key, CF1.key, CF2.key, CF3.key, CF5.key, OTH.key, LST.key,
      NOC.key,
      SUB1.key, SUB2.key, SUB3.key, SUB4.key, SUB6.key>>

\* discover_json_files + sorted(): the files present, in sorted order.
RECURSIVE SortedFrom(_, _)
SortedFrom(present, p) ==
    IF p > Len(FileOrder) THEN <<>>
    ELSE (IF FileOrder[p] \in present THEN <<FileOrder[p]>> ELSE <<>>)
         \o SortedFrom(present, p + 1)

DiscoverJsonFiles(present) == SortedFrom({f.key : f \in present}, 1)

\* The contents of raw_data/ that are explored.
Scenarios ==
    {{CF1, CF2, SUB2}, {SUB1, SUB2}, {BAD, CF1}, {CF3, CF2}, {CF1, CF5},
     {OTH, SUB3}, {LST, NOC, SUB4}, {SUB6}, {CF1, CF6}}

InitCur ==
    [ent |-> 0, eid |-> 0, pi |-> 1, date_id |-> 0, unit_id |-> 0,
     unit_name |-> "NA", rows |-> <<>>, planned |-> 0, dups |-> 0,
     upd |-> [company_name |-> None, sic |-> None]]

EmptyCaches ==
    [entity |-> EmptyMap, unit |-> EmptyMap, vn |-> EmptyMap, date |-> EmptyMap]

\* The worker processes main() starts for a run with n workers over the store.
\* main() returns before starting any when no file is left to process.
Spawned(n, store, fs) ==
    IF Range(fs) \subseteq LoadProcessedFileKeys(store)
    THEN [w \in Workers |-> "off"]
    ELSE [w \in Workers |-> IF w < n THEN "start" ELSE "off"]

ShardIdle ==
    /\ shFiles = <<>>
    /\ shWorkers = 1
    /\ shOut = [wi \in {0} |-> NotYet]
    /\ shChunks = <<>>
    /\ shSplit = FALSE

Init ==
    /\ ShardIdle
    /\ AuxIdle
    /\ run = "first"
    /\ nworkers \in 1..MaxWorkers
    /\ files \in {DiscoverJsonFiles(sc) : sc \in Scenarios}
    /\ db = EmptyStore
    /\ txn = EmptyStore
    /\ lock = NoLock
    /\ pc = Spawned(nworkers, EmptyStore, files)
    /\ shard = [w \in Workers |-> ChunkedFiles(files, nworkers, w % nworkers)]
    /\ idx = [w \in Workers |-> 0]
    /\ processed = [w \in Workers |-> {}]
    /\ cache = [w \in Workers |-> EmptyCaches]
    /\ cur = [w \in Workers |-> InitCur]
    /\ skipped = [w \in Workers |-> {}]
    /\ errored = [w \in Workers |-> {}]
    /\ dvAtRerun = {}
    /\ exitCodes = [w \in Workers |-> 0]
    /\ faulted = FALSE

View(w) == IF lock = w THEN txn ELSE db
CanWrite(w) == lock \in {NoLock, w}

CurKey(w) == shard[w][idx[w]]
CurFile(w) == FileByKey(CurKey(w))
CurData(w) == CurFile(w).data

\* extract_entity_identity: the CIK of the payload, else of the file name.
ExtractCik(file) ==
    IF NormalizeCik(file.data.cik) # <<>> THEN NormalizeCik(file.data.cik)
    ELSE NormalizeCik(file.fnameCik)

\* extract_entity_identity: metadata is taken only from a payload with a sic
\* (stateOfIncorporation and addresses are not modelled).
HasMetadata(data) == data.sic # None

\* The points of the file at hand, by its handler.
PointsOf(file) ==
    IF file.source = "companyfacts" THEN IterCompanyfactsPoints(file.data.facts)
    ELSE IterSubmissionsRecentPoints(file.data.recent)

SetPc(w, p) == pc' = [pc EXCEPT ![w] = p]
SetIdx(w, i) == idx' = [idx EXCEPT ![w] = i]
SetCur(w, c) == cur' = [cur EXCEPT ![w] = c]
SetCache(w, c) == cache' = [cache EXCEPT ![w] = c]

\* The write took (or already held) the lock and left the working copy s.
Wrote(w, s) == lock' = w /\ txn' = s /\ db' = db

\* A variant in which the writes of a transaction that is given up stay in
\* the store.
RolledBackKeepsWrites(w) ==
    /\ lock' = (IF lock = w THEN NoLock ELSE lock)
    /\ txn' = (IF lock = w THEN EmptyStore ELSE txn)
    /\ db' = (IF lock = w THEN txn ELSE db)

\* session.rollback(), and the rollback of session.close(): the write
\* transaction of w, if it has one, is dropped.
RolledBack(w) ==
    /\ lock' = (IF lock = w THEN NoLock ELSE lock)
    /\ txn' = (IF lock = w THEN EmptyStore ELSE txn)
    /\ db' = db

KeepRun ==
    UNCHANGED <<shardVars, run, nworkers, files, shard, dvAtRerun, exitCodes>>

\* The except branch of the file loop: rollback, count the exception, record
\* the file, go on to the next file.
RaiseInFile(w, exc) ==
    /\ RolledBack(w)
    /\ errored' = [errored EXCEPT ![w] = @ \cup {<<CurKey(w), exc>>}]
    /\ SetPc(w, "file")
    /\ SetIdx(w, idx[w] + 1)
    /\ SetCur(w, InitCur)
    /\ UNCHANGED <<processed, cache, skipped, faulted>>
    /\ KeepRun

\* An exception outside the file loop's try (the get_unit_id_cached("NA")
\* before the loop): the process ends with the traceback.
Crash(w) ==
    /\ RolledBack(w)
    /\ SetPc(w, "crashed")
    /\ UNCHANGED <<idx, cur, errored, processed, cache, skipped, faulted>>
    /\ KeepRun

\* The worker process is killed (SIGKILL, power loss) wherever it is: SQLite
\* drops the transaction it had open, nothing of the process is left.  At
\* most one worker is killed per run.
Kill(w) ==
    /\ pc[w] \notin {"off", "done", "crashed", "killed"}
    /\ \A v \in Workers : pc[v] # "killed"
    /\ RolledBack(w)
    /\ SetPc(w, "killed")
    /\ UNCHANGED <<idx, cur, errored, processed, cache, skipped, faulted>>
    /\ KeepRun

\* _log_unprocessed(...); continue -- neither commit nor rollback.
LogUnprocessed(w, reason) ==
    /\ skipped' = [skipped EXCEPT ![w] = @ \cup {<<CurKey(w), reason>>}]
    /\ SetPc(w, "file")
    /\ SetIdx(w, idx[w] + 1)
    /\ SetCur(w, InitCur)
    /\ UNCHANGED <<db, txn, lock, processed, cache, errored, faulted>>
    /\ KeepRun


(***************************************************************************)
(* Entity resolution.                                                      *)
(***************************************************************************)
\* _scheme_alias, for the schemes this pipeline passes.
SchemeAlias(scheme) ==
    IF scheme \in {"cik", "sec", "sec-cik", "sec_cik"} THEN "sec_cik"
    ELSE IF scheme \in {"lei", "gleif", "gleif-lei", "gleif_lei"} THEN "gleif_lei"
    ELSE scheme

RECURSIVE IntOfDigits(_)
IntOfDigits(digits) ==
    IF digits = <<>> THEN 0
    ELSE 10 * IntOfDigits(SubSeq(digits, 1, Len(digits) - 1)) + digits[Len(digits)]

\* _normalize_identifier_value for a value made of digits: a CIK goes through
\* _normalize_cik again, any other scheme keeps the value.
NormalizeIdentifierValue(scheme, value) ==
    IF value = <<>> THEN value
    ELSE IF scheme \in {"sec_cik", "cik"} THEN NormalizeCik(IntOfDigits(value))
    ELSE value

\* A variant that hands back whatever row holds the identifier, without
\* looking at the entity it belongs to.
GetOrCreateEntityIdentifierNoCheck(store, entity_id, scheme, value) ==
    LET scheme_n == SchemeAlias(scheme)
        value_n == NormalizeIdentifierValue(scheme_n, value)
        existing == IdentifierBy(store, scheme_n, value_n)
    IN IF existing.id # 0
       THEN [raised |-> FALSE,
             store |-> [store EXCEPT !.identifiers =
                           {IF r.id = existing.id
                            THEN [r EXCEPT !.entity_id = entity_id] ELSE r : r \in @}]]
       ELSE [raised |-> FALSE,
             store |-> IdentifierInsert(store, entity_id, scheme_n, value_n)]

\* IntegrityError("Identifier conflict: ... already belongs to entity_id=...")
IdentifierConflict == "IntegrityError: Identifier conflict"

\* _get_or_create_entity_identifier: raised is the IntegrityError
\* "Identifier conflict"; otherwise store is the store after the call.
GetOrCreateEntityIdentifier(store, entity_id, scheme, value) ==
    LET scheme_n == SchemeAlias(scheme)
        value_n == NormalizeIdentifierValue(scheme_n, value)
        existing == IdentifierBy(store, scheme_n, value_n)
    IN IF existing.id # 0
       THEN [raised |-> existing.entity_id # entity_id, store |-> store]
       ELSE [raised |-> FALSE,
             store |-> IdentifierInsert(store, entity_id, scheme_n, value_n)]

\* A variant that writes every value the payload gives, set or not.
MetaUpdatesOverwrite(meta, data) ==
    [company_name |-> data.name,
     sic |-> IF HasMetadata(data) THEN data.sic ELSE None]

\* The attributes get_or_create_entity sets on the metadata row meta: the
\* company name and each metadata value that is given where the row has none.
\* The metadata dict of a payload with a sic holds company_name and sic.
MetaUpdates(meta, data) ==
    [company_name |->
        IF data.name # None /\ meta.company_name = None THEN data.name ELSE None,
     sic |->
        IF HasMetadata(data) /\ meta.sic = None THEN data.sic ELSE None]

NoUpdates == [company_name |-> None, sic |-> None]

\* The row after the attribute writes upd (None: attribute not written).
ApplyMetaUpdates(store, entity_id, upd) ==
    [store EXCEPT !.metadata =
        {IF r.entity_id = entity_id
         THEN [r EXCEPT !.company_name =
                            IF upd.company_name # None THEN upd.company_name ELSE @,
                        !.sic = IF upd.sic # None THEN upd.sic ELSE @]
         ELSE r : r \in @}]

(***************************************************************************)
(* The steps of a worker process.                                          *)
(***************************************************************************)
\* _run up to the file loop: the processed set is loaded, then
\* get_unit_id_cached("NA") is called (pc "unit" with idx 0).
StartWorker(w) ==
    /\ pc[w] = "start"
    /\ processed' = [processed EXCEPT ![w] = LoadProcessedFileKeys(View(w))]
    /\ SetPc(w, "unit")
    /\ UNCHANGED <<db, txn, lock, idx, cache, cur, skipped, errored, faulted>>
    /\ KeepRun

\* What follows a resolved unit id: the file loop (before it), the point
\* loop of process_submissions_file (its na_unit_id), or the value name of
\* the companyfacts point at hand.
UnitResolved(w, id) ==
    IF idx[w] = 0
    THEN SetPc(w, "file") /\ SetIdx(w, 1) /\ SetCur(w, InitCur)
    ELSE /\ SetPc(w, IF CurFile(w).source = "submissions" THEN "date" ELSE "vn")
         /\ SetCur(w, [cur[w] EXCEPT !.unit_id = id])
         /\ UNCHANGED idx

\* get_unit_id_cached up to the SELECT of get_or_create_unit.
UnitSelect(w) ==
    /\ pc[w] = "unit"
    /\ LET key == UnitKey(cur[w].unit_name)
           found == UnitIdByName(View(w), key)
       IN IF key \in DOMAIN cache[w].unit
          THEN UnitResolved(w, cache[w].unit[key]) /\ UNCHANGED cache
          ELSE IF found # 0
          THEN /\ UnitResolved(w, found)
               /\ SetCache(w, [cache[w] EXCEPT !.unit = Put(@, key, found)])
          ELSE SetPc(w, "unit_ins") /\ UNCHANGED <<idx, cur, cache>>
    /\ UNCHANGED <<db, txn, lock, processed, skipped, errored, faulted>>
    /\ KeepRun

\* get_or_create_unit: session.add(unit); session.flush().
UnitInsertStep(w) ==
    /\ pc[w] = "unit_ins"
    /\ CanWrite(w)
    /\ LET key == UnitKey(cur[w].unit_name)
           v == View(w)
       IN IF UnitInsertFails(v, key)
          THEN IF idx[w] = 0 THEN Crash(w) ELSE RaiseInFile(w, "IntegrityError")
          ELSE /\ Wrote(w, UnitInsert(v, key))
               /\ UnitResolved(w, NextId(v.units))
               /\ SetCache(w, [cache[w] EXCEPT !.unit = Put(@, key, NextId(v.units))])
               /\ UNCHANGED <<processed, skipped, errored, faulted>>
               /\ KeepRun

\* End of the file loop: the summary is printed and the session is closed.
FileFinish(w) ==
    /\ pc[w] = "file"
    /\ idx[w] > Len(shard[w])
    /\ SetPc(w, "done")
    /\ RolledBack(w)
    /\ UNCHANGED <<idx, cur, cache, processed, skipped, errored, faulted>>
    /\ KeepRun

\* if file_key in processed: continue
FileSkipProcessed(w) ==
    /\ pc[w] = "file"
    /\ idx[w] <= Len(shard[w])
    /\ CurKey(w) \in processed[w]
    /\ SetIdx(w, idx[w] + 1)
    /\ UNCHANGED <<db, txn, lock, pc, cur, cache, processed, skipped, errored, faulted>>
    /\ KeepRun

\* json.load, the dict check and extract_entity_identity.
FileLoad(w) ==
    /\ pc[w] = "file"
    /\ idx[w] <= Len(shard[w])
    /\ CurKey(w) \notin processed[w]
    /\ IF CurData(w).kind = "corrupt" THEN RaiseInFile(w, "JSONDecodeError")
       ELSE IF CurData(w).kind # "dict" THEN LogUnprocessed(w, "non_dict_json")
       ELSE IF ExtractCik(CurFile(w)) = <<>>
       THEN LogUnprocessed(w, "missing_cik_and_cannot_infer")
       ELSE /\ SetPc(w, "entity")
            /\ UNCHANGED <<db, txn, lock, idx, cur, cache, processed, skipped,
                           errored, faulted>>
            /\ KeepRun


\* get_entity_id_cached returns: a cached id wins over the entity just
\* resolved; otherwise the resolved id is cached.
EntityResolved(w) ==
    LET cik == ExtractCik(CurFile(w))
    IN IF cik \in DOMAIN cache[w].entity
       THEN /\ SetCur(w, [cur[w] EXCEPT !.eid = cache[w].entity[cik]])
            /\ UNCHANGED cache
       ELSE /\ SetCur(w, [cur[w] EXCEPT !.eid = cur[w].ent])
            /\ SetCache(w, [cache[w] EXCEPT !.entity = Put(@, cik, cur[w].ent)])

\* get_entity_id_cached / get_or_create_entity up to the identifier SELECT of
\* get_or_create_entity_by_identifier (and the entity SELECT when it is found).
EntitySelect(w) ==
    /\ pc[w] = "entity"
    /\ LET cik == ExtractCik(CurFile(w))
           data == CurData(w)
           value_n == NormalizeIdentifierValue(SchemeAlias("sec_cik"), cik)
           ident == IdentifierBy(View(w), SchemeAlias("sec_cik"), value_n)
       IN IF cik \in DOMAIN cache[w].entity /\ data.name = None /\ ~HasMetadata(data)
          THEN /\ SetCur(w, [cur[w] EXCEPT !.eid = cache[w].entity[cik]])
               /\ SetPc(w, "dispatch")
               /\ UNCHANGED <<db, txn, lock, idx, cache, processed, skipped,
                              errored, faulted>>
               /\ KeepRun
          ELSE IF ident.id = 0
          THEN /\ SetPc(w, "entity_ins")
               /\ UNCHANGED <<db, txn, lock, idx, cur, cache, processed, skipped,
                              errored, faulted>>
               /\ KeepRun
          ELSE IF ~EntityExists(View(w), ident.entity_id)
          THEN RaiseInFile(w, "LookupError")
          ELSE /\ SetCur(w, [cur[w] EXCEPT !.ent = ident.entity_id])
               /\ SetPc(w, "meta")
               /\ UNCHANGED <<db, txn, lock, idx, cache, processed, skipped,
                              errored, faulted>>
               /\ KeepRun

\* get_or_create_entity_by_identifier, the create branch: the Entity is added
\* and flushed, then _get_or_create_entity_identifier attaches the identifier.
EntityInsertStep(w) ==
    /\ pc[w] = "entity_ins"
    /\ CanWrite(w)
    /\ LET cik == ExtractCik(CurFile(w))
           scheme_n == SchemeAlias("sec_cik")
           value_n == NormalizeIdentifierValue(scheme_n, cik)
           v == View(w)
           entity_id == NextId(v.entities)
           res == GetOrCreateEntityIdentifier(EntityInsert(v, value_n), entity_id,
                                              scheme_n, value_n)
       IN IF res.raised THEN RaiseInFile(w, IdentifierConflict)
          ELSE /\ Wrote(w, res.store)
               /\ SetCur(w, [cur[w] EXCEPT !.ent = entity_id])
               /\ SetPc(w, "meta")
               /\ UNCHANGED <<idx, cache, processed, skipped, errored, faulted>>
               /\ KeepRun

\* get_or_create_entity, "Create/backfill metadata": the SELECT of the row.
MetaSelect(w) ==
    /\ pc[w] = "meta"
    /\ LET data == CurData(w)
           ent == cur[w].ent
       IN IF data.name = None /\ ~HasMetadata(data)
          THEN EntityResolved(w) /\ SetPc(w, "dispatch")
          ELSE IF ~MetadataExists(View(w), ent)
          THEN SetPc(w, "meta_ins") /\ UNCHANGED <<cur, cache>>
          ELSE IF MetaUpdates(MetadataOf(View(w), ent), data) = NoUpdates
          THEN EntityResolved(w) /\ SetPc(w, "dispatch")
          ELSE /\ SetCur(w, [cur[w] EXCEPT
                                !.upd = MetaUpdates(MetadataOf(View(w), ent), data)])
               /\ SetPc(w, "meta_upd")
               /\ UNCHANGED cache
    /\ UNCHANGED <<db, txn, lock, idx, processed, skipped, errored, faulted>>
    /\ KeepRun

\* The INSERT of the missing metadata row (entity_id is its primary key),
\* followed by the writes of its attributes.
MetaInsertStep(w) ==
    /\ pc[w] = "meta_ins"
    /\ CanWrite(w)
    /\ LET v == View(w)
           ent == cur[w].ent
           v1 == MetadataInsert(v, ent)
       IN IF MetadataExists(v, ent) THEN RaiseInFile(w, "IntegrityError")
          ELSE /\ Wrote(w, ApplyMetaUpdates(v1, ent,
                                MetaUpdates(MetadataOf(v1, ent), CurData(w))))
               /\ EntityResolved(w)
               /\ SetPc(w, "dispatch")
               /\ UNCHANGED <<idx, processed, skipped, errored, faulted>>
               /\ KeepRun

\* The UPDATE of the attributes found unset by the SELECT.
MetaUpdateStep(w) ==
    /\ pc[w] = "meta_upd"
    /\ CanWrite(w)
    /\ Wrote(w, ApplyMetaUpdates(View(w), cur[w].ent, cur[w].upd))
    /\ EntityResolved(w)
    /\ SetPc(w, "dispatch")
    /\ UNCHANGED <<idx, processed, skipped, errored, faulted>>
    /\ KeepRun

\* filing_dates / report_dates of process_submissions_file.
ListOrEmpty(has, arr) == IF has THEN arr ELSE <<>>

\* A variant without the check of the two date arrays.
SubmissionsUnprocessedReasonNoDates(data) ==
    IF ~RecentIsNonEmpty(data) THEN "unknown_submissions_schema" ELSE "ok"

\* The reason process_submissions_file returns before reading any point, or
\* "ok".
SubmissionsUnprocessedReason(data) ==
    IF ~RecentIsNonEmpty(data) THEN "unknown_submissions_schema"
    ELSE IF ListOrEmpty(data.recent.hasFilingDate, data.recent.filingDate) = <<>>
            /\ ListOrEmpty(data.recent.hasReportDate, data.recent.reportDate) = <<>>
    THEN "submissions_missing_dates"
    ELSE "ok"

\* The dispatch on the source folder, and the checks each handler makes
\* before its point loop.
Dispatch(w) ==
    /\ pc[w] = "dispatch"
    /\ LET file == CurFile(w)
       IN IF file.source = "companyfacts"
          THEN IF file.data.facts = <<>> THEN LogUnprocessed(w, "missing_facts")
               ELSE /\ SetPc(w, "date")
                    /\ UNCHANGED <<db, txn, lock, idx, cur, cache, processed,
                                   skipped, errored, faulted>>
                    /\ KeepRun
          ELSE IF file.source = "submissions"
          THEN IF SubmissionsUnprocessedReason(file.data) # "ok"
               THEN LogUnprocessed(w, SubmissionsUnprocessedReason(file.data))
               ELSE /\ SetPc(w, "unit")
                    /\ SetCur(w, [cur[w] EXCEPT !.unit_name = "NA"])
                    /\ UNCHANGED <<db, txn, lock, idx, cache, processed,
                                   skipped, errored, faulted>>
                    /\ KeepRun
          ELSE LogUnprocessed(w, "unknown_source")


(***************************************************************************)
(* The point loops of process_companyfacts_file and                        *)
(* process_submissions_file, one step per lookup.                          *)
(***************************************************************************)
CurPoints(w) == PointsOf(CurFile(w))
CurPoint(w) == CurPoints(w)[cur[w].pi]

\* "continue": on to the next point.
NextPoint(w) ==
    /\ SetCur(w, [cur[w] EXCEPT !.pi = @ + 1])
    /\ SetPc(w, "date")

\* What follows a resolved date id: the unit of a companyfacts point, the value
\* name of a submissions point (its unit is na_unit_id).
DateResolved(w, id) ==
    IF CurFile(w).source = "companyfacts"
    THEN /\ SetCur(w, [cur[w] EXCEPT !.date_id = id, !.unit_name = CurPoint(w).unit])
         /\ SetPc(w, "unit")
    ELSE /\ SetCur(w, [cur[w] EXCEPT !.date_id = id])
         /\ SetPc(w, "vn")

\* The head of the point loop and get_date_id_cached up to the SELECT of
\* get_or_create_date_entry.
DateSelect(w) ==
    /\ pc[w] = "date"
    /\ IF cur[w].pi > Len(CurPoints(w))
       THEN SetPc(w, "bulk") /\ UNCHANGED <<cur, cache>>
       ELSE LET d == CurPoint(w).date
                found == DateIdByDate(View(w), d)
            IN IF CurFile(w).source = "submissions" /\ d \in {None, ""}
               THEN NextPoint(w) /\ UNCHANGED cache
               ELSE IF d \in DOMAIN cache[w].date
               THEN DateResolved(w, cache[w].date[d]) /\ UNCHANGED cache
               ELSE IF ~IsYmd(d)
               THEN NextPoint(w) /\ UNCHANGED cache
               ELSE IF found # 0
               THEN /\ DateResolved(w, found)
                    /\ SetCache(w, [cache[w] EXCEPT !.date = Put(@, d, found)])
               ELSE SetPc(w, "date_ins") /\ UNCHANGED <<cur, cache>>
    /\ UNCHANGED <<db, txn, lock, idx, processed, skipped, errored, faulted>>
    /\ KeepRun

\* get_or_create_date_entry: session.add(date_entry); session.flush().
DateInsertStep(w) ==
    /\ pc[w] = "date_ins"
    /\ CanWrite(w)
    /\ LET d == CurPoint(w).date
           v == View(w)
       IN IF DateInsertFails(v, d) THEN RaiseInFile(w, "IntegrityError")
          ELSE /\ Wrote(w, DateInsert(v, d))
               /\ DateResolved(w, NextId(v.dates))
               /\ SetCache(w, [cache[w] EXCEPT !.date = Put(@, d, NextId(v.dates))])
               /\ UNCHANGED <<idx, processed, skipped, errored, faulted>>
               /\ KeepRun

\* rows.append(dict(entity_id, date_id, value_name_id, value)) and on to the
\* next point.
RowAppended(w, vn_id) ==
    /\ SetCur(w, [cur[w] EXCEPT
                     !.rows = Append(@, [entity_id |-> cur[w].eid,
                                         date_id |-> cur[w].date_id,
                                         value_name_id |-> vn_id,
                                         value |-> SafeStr(CurPoint(w).val)]),
                     !.planned = @ + 1,
                     !.pi = @ + 1])
    /\ SetPc(w, "date")

\* get_value_name_id_cached up to the SELECT of get_or_create_value_name; a
\* row found without a unit gets the unit at hand (the backfill UPDATE).
VnSelect(w) ==
    /\ pc[w] = "vn"
    /\ LET name == CurPoint(w).value_name
           key == <<name, cur[w].unit_id>>
           row == ValueNameByName(View(w), name)
       IN IF key \in DOMAIN cache[w].vn
          THEN /\ RowAppended(w, cache[w].vn[key])
               /\ UNCHANGED <<db, txn, lock, cache>>
          ELSE IF row.id = 0
          THEN /\ SetPc(w, "vn_ins")
               /\ UNCHANGED <<db, txn, lock, cur, cache>>
          ELSE /\ IF cur[w].unit_id # 0 /\ row.unit_id = 0
                  THEN /\ CanWrite(w)
                       /\ Wrote(w, ValueNameSetUnit(View(w), row.id, cur[w].unit_id))
                  ELSE UNCHANGED <<db, txn, lock>>
               /\ RowAppended(w, row.id)
               /\ SetCache(w, [cache[w] EXCEPT !.vn = Put(@, key, row.id)])
    /\ UNCHANGED <<idx, processed, skipped, errored, faulted>>
    /\ KeepRun

\* get_or_create_value_name: session.add(value_name); session.flush().
VnInsertStep(w) ==
    /\ pc[w] = "vn_ins"
    /\ CanWrite(w)
    /\ LET name == CurPoint(w).value_name
           key == <<name, cur[w].unit_id>>
           v == View(w)
       IN IF ValueNameInsertFails(v, name) THEN RaiseInFile(w, "IntegrityError")
          ELSE /\ Wrote(w, ValueNameInsert(v, name, cur[w].unit_id))
               /\ RowAppended(w, NextId(v.value_names))
               /\ SetCache(w, [cache[w] EXCEPT
                                  !.vn = Put(@, key, NextId(v.value_names))])
               /\ UNCHANGED <<idx, processed, skipped, errored, faulted>>
               /\ KeepRun

\* After the point loop: _insert_daily_values_ignore_bulk(session, rows) and
\* duplicates = max(inserts_planned - inserted, 0).  No statement is sent for
\* an empty batch.
BulkInsert(w) ==
    /\ pc[w] = "bulk"
    /\ LET v == View(w)
           after == InsertDailyValuesIgnoreBulk(v, cur[w].rows)
           inserted == Cardinality(after.daily_values) - Cardinality(v.daily_values)
       IN /\ IF cur[w].rows = <<>> THEN UNCHANGED <<db, txn, lock>>
             ELSE CanWrite(w) /\ Wrote(w, after)
          /\ SetCur(w, [cur[w] EXCEPT
                           !.dups = IF cur[w].planned - inserted > 0
                                    THEN cur[w].planned - inserted ELSE 0])
    /\ SetPc(w, "mark")
    /\ UNCHANGED <<idx, cache, processed, skipped, errored, faulted>>
    /\ KeepRun

\* A variant whose marker INSERT is committed on its own, ahead of the
\* file's transaction.
MarkProcessedOwnCommit(w) ==
    /\ pc[w] = "mark"
    /\ CanWrite(w)
    /\ lock' = w
    /\ txn' = MarkFileProcessed(View(w), cur[w].eid, CurKey(w))
    /\ db' = MarkFileProcessed(db, cur[w].eid, CurKey(w))
    /\ SetPc(w, "commit")
    /\ UNCHANGED <<idx, cur, cache, processed, skipped, errored, faulted>>
    /\ KeepRun

\* _mark_file_processed(session, entity_id, file_key), before the commit.
MarkProcessed(w) ==
    /\ pc[w] = "mark"
    /\ CanWrite(w)
    /\ Wrote(w, MarkFileProcessed(View(w), cur[w].eid, CurKey(w)))
    /\ SetPc(w, "commit")
    /\ UNCHANGED <<idx, cur, cache, processed, skipped, errored, faulted>>
    /\ KeepRun

\* session.commit() succeeds: the working copy becomes the committed store,
\* the file joins the in-memory processed set.
CommitOk(w) ==
    /\ pc[w] = "commit"
    /\ lock = w
    /\ db' = txn
    /\ txn' = EmptyStore
    /\ lock' = NoLock
    /\ processed' = [processed EXCEPT ![w] = @ \cup {CurKey(w)}]
    /\ SetPc(w, "file")
    /\ SetIdx(w, idx[w] + 1)
    /\ SetCur(w, InitCur)
    /\ UNCHANGED <<cache, skipped, errored, faulted>>
    /\ KeepRun

\* A variant in which a failed commit ends the worker's loop.
CommitFailEndsRun(w) ==
    /\ pc[w] = "commit"
    /\ lock = w
    /\ ~faulted
    /\ faulted' = TRUE
    /\ RolledBack(w)
    /\ errored' = [errored EXCEPT ![w] = @ \cup {<<CurKey(w), "OperationalError">>}]
    /\ SetPc(w, "done")
    /\ UNCHANGED <<idx, cur, processed, cache, skipped>>
    /\ KeepRun

\* session.commit() raises (disk full, I/O error, ...): rollback, the file is
\* recorded as an error, the loop goes on.  At most one such fault is explored
\* per behaviour.
CommitFail(w) ==
    /\ pc[w] = "commit"
    /\ lock = w
    /\ ~faulted
    /\ faulted' = TRUE
    /\ RolledBack(w)
    /\ errored' = [errored EXCEPT ![w] = @ \cup {<<CurKey(w), "OperationalError">>}]
    /\ SetPc(w, "file")
    /\ SetIdx(w, idx[w] + 1)
    /\ SetCur(w, InitCur)
    /\ UNCHANGED <<processed, cache, skipped>>
    /\ KeepRun


\* Every worker process of the run has ended (summary printed, or traceback).
RunOver == \A w \in Workers : pc[w] \in {"off", "done", "crashed", "killed"}

\* main() is started again over the same raw_data/, with any worker count,
\* against the store the first run left.  The new processes share nothing
\* with the old ones but the store.
Rerun ==
    /\ run = "first"
    /\ RunOver
    /\ run' = "rerun"
    /\ \E n \in 1..MaxWorkers :
           /\ nworkers' = n
           /\ pc' = Spawned(n, db, files)
           /\ shard' = [w \in Workers |-> ChunkedFiles(files, n, w % n)]
    /\ idx' = [w \in Workers |-> 0]
    /\ processed' = [w \in Workers |-> {}]
    /\ cache' = [w \in Workers |-> EmptyCaches]
    /\ cur' = [w \in Workers |-> InitCur]
    /\ skipped' = [w \in Workers |-> {}]
    /\ errored' = [w \in Workers |-> {}]
    /\ dvAtRerun' = db.daily_values
    /\ exitCodes' = [w \in Workers |-> IF pc[w] = "crashed" THEN 1
                                       ELSE IF pc[w] = "killed" THEN -9 ELSE 0]
    /\ UNCHANGED <<shardVars, files, db, txn, lock, faulted>>

WorkerStep(w) ==
    \/ StartWorker(w)
    \/ UnitSelect(w)
    \/ UnitInsertStep(w)
    \/ FileFinish(w)
    \/ FileSkipProcessed(w)
    \/ FileLoad(w)
    \/ EntitySelect(w)
    \/ EntityInsertStep(w)
    \/ MetaSelect(w)
    \/ MetaInsertStep(w)
    \/ MetaUpdateStep(w)
    \/ Dispatch(w)
    \/ DateSelect(w)
    \/ DateInsertStep(w)
    \/ VnSelect(w)
    \/ VnInsertStep(w)
    \/ BulkInsert(w)
    \/ MarkProcessed(w)
    \/ CommitOk(w)
    \/ CommitFail(w)
    \/ Kill(w)

Next ==
    /\ \/ \E w \in Workers : WorkerStep(w)
       \/ Rerun
    /\ UNCHANGED auxVars

Spec == Init /\ [][Next]_vars


(***************************************************************************)
(* Properties of the ingestion.                                            *)
(***************************************************************************)
Alive(w) == pc[w] \notin {"off", "start", "done", "crashed", "killed"}

IsIntegrityError(exc) == exc \in {"IntegrityError", IdentifierConflict}

\* The first run ended with every worker process exiting 0, and no commit
\* failed for a reason outside the program.
FirstRunCompleted ==
    /\ run = "rerun"
    /\ \A w \in Workers : exitCodes[w] = 0
    /\ ~faulted

\* C1: in a rerun over the same files, against the store a completed first
\* run left, the committed DailyValue rows are those the rerun started with,
\* whatever the worker counts of the two runs.
C1_RerunInsertsNothing ==
    FirstRunCompleted => db.daily_values \subseteq dvAtRerun

UniqueIdentifiers(store) ==
    \A a \in store.identifiers : \A b \in store.identifiers :
        (a.scheme = b.scheme /\ a.value = b.value) => a = b

UniqueDailyValues(store) ==
    \A a \in store.daily_values : \A b \in store.daily_values :
        (a.entity_id = b.entity_id /\ a.date_id = b.date_id
         /\ a.value_name_id = b.value_name_id) => a = b

\* C2: in every reachable state, in the committed store and in the working
\* copy of the writing process, no two EntityIdentifier rows share (scheme,
\* value) and no two DailyValue rows share (entity, date, value_name).
C2_UniqueRows ==
    /\ UniqueIdentifiers(db)
    /\ UniqueDailyValues(db)
    /\ lock # NoLock => UniqueIdentifiers(txn) /\ UniqueDailyValues(txn)

\* Two processes at work, one of them holding rows of a file with a repeated
\* key on top of committed facts.
C2_Witness ==
    /\ nworkers = 2
    /\ Alive(0) /\ Alive(1)
    /\ lock # NoLock
    /\ Cardinality(db.daily_values) >= 2
    /\ Cardinality(txn.daily_values) > Cardinality(db.daily_values)
    /\ Cardinality(txn.identifiers) >= 2

\* C3: when the identifier of the entity being created is found attached to
\* another entity, the step (of a worker that is not killed there) ends in
\* the "Identifier conflict" IntegrityError (the file is rolled back and
\* recorded), and no committed identifier row is ever changed or removed.
C3_ConflictRaises ==
    /\ [][\A w \in Workers :
            (/\ pc[w] = "entity_ins"
             /\ pc'[w] \notin {"entity_ins", "killed"}
             /\ IdentifierBy(View(w), "sec_cik", ExtractCik(CurFile(w))).id # 0)
            => /\ <<CurKey(w), IdentifierConflict>> \in errored'[w]
               /\ db' = db
               /\ lock' # w]_vars
    /\ [][db.identifiers \subseteq db'.identifiers]_vars

C3_Witness ==
    \E w \in Workers :
        /\ <<CF2.key, IdentifierConflict>> \in errored[w]
        /\ \E r \in db.identifiers : r.value = ExtractCik(CF2)

\* C5 (as the code has it): the marker row of a file is inserted in the
\* file's own transaction before the commit (it is in the working copy and
\* not in the committed store while the commit is pending), and it reaches
\* the committed store only in the successful commit of that transaction,
\* together with the file's data.
C5_MarkerCommittedWithData ==
    /\ [](\A w \in Workers :
            pc[w] = "commit" =>
                /\ lock = w
                /\ CurKey(w) \in LoadProcessedFileKeys(txn)
                /\ CurKey(w) \notin LoadProcessedFileKeys(db))
    /\ [][\A k \in LoadProcessedFileKeys(db') \ LoadProcessedFileKeys(db) :
            \E w \in Workers :
                /\ pc[w] = "commit"
                /\ CurKey(w) = k
                /\ lock = w
                /\ db' = txn
                /\ k \in processed'[w]]_vars

C5_Witness ==
    /\ CF1.key \in LoadProcessedFileKeys(db)
    /\ Cardinality(db.daily_values) >= 2
    /\ \E w \in Workers : CF1.key \in processed[w] /\ pc[w] = "file"

\* C5 as claimed: a marker row exists (anywhere) only after the commit of its
\* file has succeeded.
C5_MarkerOnlyAfterCommit ==
    lock # NoLock =>
        LoadProcessedFileKeys(txn) \subseteq LoadProcessedFileKeys(db)

\* C6: a step that records a file as errored (a failed commit among them)
\* leaves the worker without a transaction and at the next file of its shard;
\* a failed commit leaves the committed store as it was; a worker's loop ends
\* only past the last file of its shard, and a worker that is not killed
\* ends otherwise only before its first file.
C6_FailureContinues ==
    /\ [](\A w \in Workers :
            /\ pc[w] = "done" => idx[w] = Len(shard[w]) + 1
            /\ pc[w] = "crashed" => idx[w] = 0)
    /\ [][\A w \in Workers :
            (run' = run /\ errored'[w] # errored[w])
            => /\ pc'[w] = "file"
               /\ idx'[w] = idx[w] + 1
               /\ lock' # w
               /\ db' = db
               /\ \E e \in errored'[w] : e[1] = CurKey(w)]_vars
    /\ [][\A w \in Workers :
            (/\ pc[w] = "commit" /\ pc'[w] \notin {"commit", "killed"}
             /\ CurKey(w) \notin processed'[w])
            => errored'[w] # errored[w]]_vars

C6_Witness ==
    \E w \in Workers :
        /\ <<CF1.key, "OperationalError">> \in errored[w]
        /\ CF2.key \in processed[w]
        /\ CF1.key \notin LoadProcessedFileKeys(db)
        /\ pc[w] = "done"

\* C7: no worker ends in, and no file is lost to, an IntegrityError (with one
\* process alone a lookup always precedes the insert in the same view, so each
\* such error is a row another process inserted first).
C7_NoWriteLostToARace ==
    \A w \in Workers :
        /\ pc[w] # "crashed"
        /\ \A e \in errored[w] : ~IsIntegrityError(e[2])


\* The (metric, end date) pairs of the points of a companyfacts payload whose
\* end date is a calendar date, read off the payload itself.
FactKeysOf(facts) ==
    UNION {UNION {{<<facts[i].name, facts[i].units[j].points[k].end>> :
                      k \in {k \in DOMAIN facts[i].units[j].points :
                                facts[i].units[j].points[k].end \in ValidDates}} :
                  j \in DOMAIN facts[i].units} :
           i \in DOMAIN facts}

RowsOfEntity(store, entity_id) ==
    {r \in store.daily_values : r.entity_id = entity_id}

\* A companyfacts file is about to be committed and the committed store holds
\* no fact of its entity.
CompanyfactsIntoEmpty(w) ==
    /\ pc[w] = "commit"
    /\ CurFile(w).source = "companyfacts"
    /\ RowsOfEntity(db, cur[w].eid) = {}

\* The worker has rolled back no file so far: the ids in its caches are those
\* of rows that exist.
NoRollbackYet(w) == errored[w] = {}

C8_EvenAfterRollback ==
    \A w \in Workers :
        CompanyfactsIntoEmpty(w) =>
            Cardinality(RowsOfEntity(txn, cur[w].eid))
                = Cardinality(FactKeysOf(CurData(w).facts))

\* A submissions payload with neither a filingDate nor a reportDate array.
LacksDateArrays(file) ==
    /\ file.source = "submissions"
    /\ file.data.kind = "dict"
    /\ ~file.data.recent.hasFilingDate
    /\ ~file.data.recent.hasReportDate

\* ... in the full shape (filings.recent), its recent object not empty.
FullShapeLacksDateArrays(file) ==
    /\ LacksDateArrays(file)
    /\ file.data.shape = "full"
    /\ RecentIsNonEmpty(file.data)

\* The worker is between json.load and the handler's return for its file.
Handling(w) ==
    pc[w] \in {"entity", "entity_ins", "meta", "meta_ins", "meta_upd", "dispatch"}

\* The tables that hold facts, their dimensions and the processing markers.
FactTables(store) ==
    <<store.daily_values, store.file_processing, store.dates, store.units,
      store.value_names>>

UnitNameOfRow(store, r) ==
    LET vn == CHOOSE v \in store.value_names : v.id = r.value_name_id
    IN IF \E u \in store.units : u.id = vn.unit_id
       THEN (CHOOSE u \in store.units : u.id = vn.unit_id).name
       ELSE None

\* The committed rows of entity_id for a metric on a date.
RowsOfPoint(store, entity_id, value_name, d) ==
    {r \in store.daily_values :
        /\ r.entity_id = entity_id
        /\ \E v \in store.value_names : v.id = r.value_name_id /\ v.name = value_name
        /\ \E x \in store.dates : x.id = r.date_id /\ x.date = d}

\* C10: for every committed companyfacts file, each of its points with a
\* calendar end date and an empty or blank unit has exactly one fact row, and
\* that row shows the unit "NA".
C10_BlankUnitIsNA ==
    \A m \in db.file_processing :
        LET file == FileByKey(m.source_file)
            pts == IterCompanyfactsPoints(file.data.facts)
        IN file.source = "companyfacts" =>
               \A i \in DOMAIN pts :
                   (UnitKey(pts[i].unit) = "NA" /\ pts[i].date \in ValidDates)
                   => LET rows == RowsOfPoint(db, m.entity_id, pts[i].value_name,
                                              pts[i].date)
                      IN /\ Cardinality(rows) = 1
                         /\ \A r \in rows : UnitNameOfRow(db, r) = "NA"

\* The attributes of row r that hold a value hold the same value in some row
\* of the same entity in rows.
KeptIn(r, rows) ==
    \E r2 \in rows :
        /\ r2.entity_id = r.entity_id
        /\ r.company_name # None => r2.company_name = r.company_name
        /\ r.sic # None => r2.sic = r.sic

SubmissionTriples(store, entity_id) ==
    UNION {{<<p[1].name, p[2].date, r.value>> :
               p \in {q \in store.value_names \X store.dates :
                         /\ q[1].id = r.value_name_id
                         /\ q[2].id = r.date_id
                         /\ q[1].name \in {SubmissionsValueName("form"),
                                           SubmissionsValueName("accessionNumber")}}} :
           r \in RowsOfEntity(store, entity_id)}

\* The date at position i of the payload's date arrays: the filing date, or
\* the report date where there is no filing date, or None.
OwnDate(recent, i) ==
    IF i <= Len(recent.filingDate) /\ recent.filingDate[i] \notin {None, ""}
    THEN recent.filingDate[i]
    ELSE IF i <= Len(recent.reportDate) /\ recent.reportDate[i] \notin {None, ""}
    THEN recent.reportDate[i]
    ELSE None

\* The entries of the payload: (field position, index) pairs.
EntriesOf(recent) ==
    UNION {{<<f, i>> : i \in DOMAIN recent.fields[f].arr} : f \in DOMAIN recent.fields}

EntryTriple(recent, e) ==
    <<SubmissionsValueName(recent.fields[e[1]].key), OwnDate(recent, e[2]),
      SafeStr(recent.fields[e[1]].arr[e[2]])>>

\* The entry has a date, and no earlier entry of its array has the same date.
FirstOnItsDate(recent, e) ==
    /\ OwnDate(recent, e[2]) \in ValidDates
    /\ \A k \in 1..(e[2] - 1) : OwnDate(recent, k) # OwnDate(recent, e[2])

\* A submissions file is about to be committed by a worker that has rolled
\* back no file.
SubmissionsAtCommit(w) ==
    /\ pc[w] = "commit"
    /\ CurFile(w).source = "submissions"
    /\ NoRollbackYet(w)

NoneText == <<"None">>

WhiteSpace == {" "}

DigitChars == {"0", "1", "2", "3", "4", "5", "6", "7", "8", "9"}

LowerLetters ==
    <<"a", "b", "c", "d", "e", "f", "g", "h", "i", "j", "k", "l", "m",
      "n", "o", "p", "q", "r", "s", "t", "u", "v", "w", "x", "y", "z">>

UpperLetters ==
    <<"A", "B", "C", "D", "E", "F", "G", "H", "I", "J", "K", "L", "M",
      "N", "O", "P", "Q", "R", "S", "T", "U", "V", "W", "X", "Y", "Z">>

UpperChar(c) ==
    IF \E i \in DOMAIN LowerLetters : LowerLetters[i] = c
    THEN UpperLetters[CHOOSE i \in DOMAIN LowerLetters : LowerLetters[i] = c]
    ELSE c

LowerChar(c) ==
    IF \E i \in DOMAIN UpperLetters : UpperLetters[i] = c
    THEN LowerLetters[CHOOSE i \in DOMAIN UpperLetters : UpperLetters[i] = c]
    ELSE c

\* str.upper and str.lower
UpperText(t) == [i \in DOMAIN t |-> UpperChar(t[i])]

LowerText(t) == [i \in DOMAIN t |-> LowerChar(t[i])]

RECURSIVE LStripText(_)
LStripText(t) ==
    IF t # <<>> /\ Head(t) \in WhiteSpace THEN LStripText(Tail(t)) ELSE t

RECURSIVE RStripText(_)
RStripText(t) ==
    IF t # <<>> /\ t[Len(t)] \in WhiteSpace
    THEN RStripText(SubSeq(t, 1, Len(t) - 1)) ELSE t

\* str.strip
StripText(t) == RStripText(LStripText(t))

\* (value or "")
OrEmpty(t) == IF t = NoneText THEN <<>> ELSE t

\* str.isdigit
IsDigitText(t) == t # <<>> /\ \A i \in DOMAIN t : t[i] \in DigitChars

IsDigitChar(c) == c \in DigitChars

\* "".join(ch for ch in s if ch.isdigit())
KeepDigits(t) == SelectSeq(t, IsDigitChar)

RECURSIVE DropLeadingZeros(_)
DropLeadingZeros(t) ==
    IF Len(t) > 1 /\ Head(t) = "0" THEN DropLeadingZeros(Tail(t)) ELSE t

\* int(s) accepts surrounding white space, one sign and decimal digits.
IntParses(t) ==
    LET u == StripText(t)
    IN \/ IsDigitText(u)
       \/ Len(u) > 1 /\ u[1] \in {"+", "-"} /\ IsDigitText(Tail(u))

\* str(int(s)) for a text int() accepts: no white space, no plus sign, no
\* leading zeros, and no sign on zero.
StrOfInt(t) ==
    LET u == StripText(t)
        digits == DropLeadingZeros(IF u[1] \in {"+", "-"} THEN Tail(u) ELSE u)
    IN IF u[1] = "-" /\ digits # <<"0">> THEN <<"-">> \o digits ELSE digits

\* str.zfill: zeros on the left up to the width, after a leading sign.
RECURSIVE ZFillText(_, _)
ZFillText(t, width) ==
    IF Len(t) >= width THEN t
    ELSE IF t # <<>> /\ t[1] \in {"+", "-"}
         THEN ZFillText(<<t[1], "0">> \o Tail(t), width)
         ELSE ZFillText(<<"0">> \o t, width)

StartsWithCIK(t) == Len(t) >= 3 /\ SubSeq(t, 1, 3) = <<"C", "I", "K">>

\* _normalize_cik for a text or None.
NormalizeCikText(raw) ==
    IF raw = NoneText THEN NoneText
    ELSE IF IntParses(raw) THEN ZFillText(StrOfInt(raw), CikWidth)
    ELSE LET t == StripText(raw)
             digits == KeepDigits(IF StartsWithCIK(t) THEN SubSeq(t, 4, Len(t)) ELSE t)
         IN IF digits # <<>> THEN ZFillText(digits, CikWidth) ELSE NoneText

\* normalize_cik of the daily-values service.
ServiceNormalizeCik(cik) ==
    LET raw == StripText(OrEmpty(cik))
    IN IF IsDigitText(raw) THEN ZFillText(StrOfInt(raw), CikWidth) ELSE raw

\* The scheme names of _scheme_alias, as texts.
TxtCik == <<"c", "i", "k">>
TxtSec == <<"s", "e", "c">>
TxtSecDashCik == <<"s", "e", "c", "-", "c", "i", "k">>
TxtSecCik == <<"s", "e", "c", "_", "c", "i", "k">>
TxtLei == <<"l", "e", "i">>
TxtGleif == <<"g", "l", "e", "i", "f">>
TxtGleifDashLei == <<"g", "l", "e", "i", "f", "-", "l", "e", "i">>
TxtGleifLei == <<"g", "l", "e", "i", "f", "_", "l", "e", "i">>
TxtTicker == <<"t", "i", "c", "k", "e", "r">>
TxtTickerExchange == TxtTicker \o <<"_", "e", "x", "c", "h", "a", "n", "g", "e">>

\* _scheme_alias
SchemeAliasText(scheme) ==
    LET s == LowerText(StripText(OrEmpty(scheme)))
    IN IF s \in {TxtCik, TxtSec, TxtSecDashCik, TxtSecCik} THEN TxtSecCik
       ELSE IF s \in {TxtLei, TxtGleif, TxtGleifDashLei, TxtGleifLei} THEN TxtGleifLei
       ELSE s

\* _normalize_identifier_value; "n or v" keeps v when _normalize_cik gives None.
NormalizeIdentifierValueText(scheme, value) ==
    LET v == StripText(OrEmpty(value))
        scheme_l == LowerText(StripText(OrEmpty(scheme)))
    IN IF v = <<>> THEN v
       ELSE IF scheme_l \in {TxtSecCik, TxtCik}
            THEN LET n == NormalizeCikText(v) IN IF n # NoneText THEN n ELSE v
       ELSE IF scheme_l \in {TxtGleifLei, TxtLei} THEN UpperText(v)
       ELSE v

(***************************************************************************)
(* The normalisation functions applied to bounded inputs, and applied      *)
(* again to their own result.                                              *)
(***************************************************************************)
RECURSIVE Zeros(_)
Zeros(n) == IF n = 0 THEN <<>> ELSE <<"0">> \o Zeros(n - 1)

\* Spellings of CIKs: bare numbers, padded, with white space, with the CIK
\* prefix of the file names, with more digits than the width, and texts that
\* hold no number.
CikInputs ==
    {NoneText, <<>>, <<" ">>, <<"1">>, <<"0">>, <<" ", "1", " ">>,
     Zeros(CikWidth - 1) \o <<"1">>,
     Zeros(CikWidth) \o <<"1">>,
     <<"1">> \o Zeros(CikWidth),
     <<"C", "I", "K">> \o Zeros(CikWidth - 1) \o <<"1">>,
     <<"C", "I", "K">> \o Zeros(CikWidth) \o <<"1">>,
     <<"C", "I", "K">> \o <<"1">> \o Zeros(CikWidth),
     <<"C", "I", "K", "3", "2", "0", "1", "9", "3">>,
     <<"c", "i", "k", "7">>, <<"3", "2", "0", "1", "9", "3">>,
     <<"-", "1">>, <<"+", "1">>, <<"1", ".", "5">>, <<"a", "b">>}

LeiLower ==
    <<"5", "4", "9", "3", "0", "0", "1", "k", "j", "t",
      "i", "i", "g", "c", "8", "y", "1", "r", "1", "2">>

TxtShort == <<"S", "H", "O", "R", "T">>

TickerLower == <<"a", "a", "p", "l", ":", "x", "n", "a", "s">>

TickerSpaced ==
    <<" ", "A", "A", "P", "L", " ", ":", " ", "X", "N", "A", "S", " ">>

\* (scheme, value) spellings handed to _normalize_identifier_value and to
\* get_or_create_entity_by_identifier.
IdentifierInputs ==
    {[scheme |-> TxtSecCik, value |-> <<"1">>],
     [scheme |-> UpperText(TxtCik), value |-> Zeros(CikWidth - 1) \o <<"1">>],
     [scheme |-> <<" ">> \o TxtSecDashCik, value |-> <<" ", "1", " ">>],
     [scheme |-> TxtSecCik, value |-> <<"a", "b">>],
     [scheme |-> TxtSecCik, value |-> <<"C", "I", "K">> \o Zeros(CikWidth) \o <<"1">>],
     [scheme |-> TxtSecCik, value |-> <<>>],
     [scheme |-> TxtGleifLei, value |-> LeiLower],
     [scheme |-> UpperText(TxtLei), value |-> UpperText(LeiLower)],
     [scheme |-> TxtGleifLei, value |-> TxtShort],
     [scheme |-> TxtTickerExchange, value |-> TickerLower],
     [scheme |-> TxtTickerExchange, value |-> UpperText(TickerLower)],
     [scheme |-> TxtTickerExchange, value |-> TickerSpaced],
     [scheme |-> TxtTickerExchange, value |-> <<"A", "A", "P", "L", ":">>],
     [scheme |-> TxtTickerExchange, value |-> <<":", "X", "N", "A", "S">>],
     [scheme |-> <<>>, value |-> <<"1">>]}

SchemeInputs ==
    {i.scheme : i \in IdentifierInputs}
        \cup {TxtSec, UpperText(TxtGleif), TxtGleifDashLei, TxtTicker, NoneText}

\* The result of one application of the function fn.
ApplyNormalizer(fn, scheme, value) ==
    CASE fn = "_normalize_cik" -> NormalizeCikText(value)
      [] fn = "normalize_cik" -> ServiceNormalizeCik(value)
      [] fn = "_scheme_alias" -> SchemeAliasText(value)
      [] fn = "_normalize_identifier_value" ->
             NormalizeIdentifierValueText(scheme, value)

NormInit ==
    /\ ShardIdle
    /\ IngestIdle
    /\ AdmIdle
    /\ ApiIdle
    /\ PollIdle
    /\ ResolveIdle
    /\ LimIdle
    /\ HttpIdle
    /\ JobIdle
    /\ SecIdle
    /\ \/ /\ normFn \in {"_normalize_cik", "normalize_cik"}
          /\ normArg \in [scheme : {<<>>}, value : CikInputs]
       \/ /\ normFn = "_scheme_alias"
          /\ normArg \in [scheme : {<<>>}, value : SchemeInputs]
       \/ /\ normFn = "_normalize_identifier_value"
          /\ normArg \in IdentifierInputs
    /\ normRes = <<>>

\* The function is called on the input.
Normalize ==
    /\ normRes = <<>>
    /\ normRes' = <<ApplyNormalizer(normFn, normArg.scheme, normArg.value)>>
    /\ UNCHANGED <<normFn, normArg, idStore, idCalls>>

\* The function is called on the result of the first call.
Renormalize ==
    /\ Len(normRes) = 1
    /\ normRes' = Append(normRes, ApplyNormalizer(normFn, normArg.scheme, normRes[1]))
    /\ UNCHANGED <<normFn, normArg, idStore, idCalls>>

NormNext ==
    /\ \/ Normalize
       \/ Renormalize
    /\ UNCHANGED otherThanNorm

SpecNorm == NormInit /\ [][NormNext]_vars

\* The digits of a text that is a decimal number, without leading zeros.
NumberOf(t) == DropLeadingZeros(StripText(t))

\* C12: CIK normalisation is idempotent (normalising a normalised value gives
\* that value), and an input that is a decimal number normalises to the same
\* string as the shortest spelling of that number, so that "1" and
\* "0000000001" normalise alike.
C12_CikCanonical ==
    normFn \in {"_normalize_cik", "normalize_cik"} =>
        /\ Len(normRes) = 2 => normRes[2] = normRes[1]
        /\ (Len(normRes) >= 1 /\ IsDigitText(StripText(OrEmpty(normArg.value)))) =>
               normRes[1] = ApplyNormalizer(normFn, <<>>, NumberOf(normArg.value))

(***************************************************************************)
(* Strict resolution: get_or_create_entity_by_identifier called in one     *)
(* session on the spellings above, each call in its own transaction.       *)
(***************************************************************************)
MaxResolveCalls == 2

\* _get_or_create_entity_identifier on texts: it normalises scheme and value
\* once more before its own lookup.
GetOrCreateEntityIdentifierText(store, entity_id, scheme, value) ==
    LET scheme_n == SchemeAliasText(scheme)
        value_n == NormalizeIdentifierValueText(scheme_n, value)
        existing == IdentifierBy(store, scheme_n, value_n)
    IN IF existing.id # 0
       THEN [raised |-> existing.entity_id # entity_id, store |-> store]
       ELSE [raised |-> FALSE,
             store |-> IdentifierInsert(store, entity_id, scheme_n, value_n)]

\* get_or_create_entity_by_identifier with create_if_missing=True.  raised is
\* "" or the exception; a raised call leaves the store as it was (the caller
\* rolls its transaction back).
GetOrCreateEntityByIdentifier(store, scheme, value) ==
    LET scheme_n == SchemeAliasText(scheme)
        value_n == NormalizeIdentifierValueText(scheme_n, value)
        ident == IdentifierBy(store, scheme_n, value_n)
        entity_id == NextId(store.entities)
        created == GetOrCreateEntityIdentifierText(
                       EntityInsert(store, IF scheme_n = TxtSecCik
                                           THEN value_n ELSE NoneText),
                       entity_id, scheme_n, value_n)
    IN IF scheme_n = <<>> \/ value_n = <<>>
       THEN [raised |-> "ValueError", entity_id |-> 0, store |-> store]
       ELSE IF ident.id # 0
       THEN IF EntityExists(store, ident.entity_id)
            THEN [raised |-> "", entity_id |-> ident.entity_id, store |-> store]
            ELSE [raised |-> "LookupError", entity_id |-> 0, store |-> store]
       ELSE IF created.raised
       THEN [raised |-> IdentifierConflict, entity_id |-> 0, store |-> store]
       ELSE [raised |-> "", entity_id |-> entity_id, store |-> created.store]

ResolveInit ==
    /\ ShardIdle
    /\ IngestIdle
    /\ AdmIdle
    /\ ApiIdle
    /\ PollIdle
    /\ NormCallIdle
    /\ LimIdle
    /\ HttpIdle
    /\ JobIdle
    /\ SecIdle
    /\ idStore = EmptyStore
    /\ idCalls = <<>>

\* One call of get_or_create_entity_by_identifier and the commit (or, when it
\* raised, the rollback) of its caller.
ResolveIdentifier ==
    /\ Len(idCalls) < MaxResolveCalls
    /\ \E inp \in IdentifierInputs :
           LET res == GetOrCreateEntityByIdentifier(idStore, inp.scheme, inp.value)
           IN /\ idStore' = res.store
              /\ idCalls' = Append(idCalls,
                                   [scheme |-> inp.scheme, value |-> inp.value,
                                    raised |-> res.raised,
                                    entity_id |-> res.entity_id])
    /\ UNCHANGED <<normFn, normArg, normRes>>

ResolveNext ==
    /\ ResolveIdentifier
    /\ UNCHANGED otherThanNorm

SpecResolve == ResolveInit /\ [][ResolveNext]_vars

\* The text without its white space.
WithoutSpaces(t) == SelectSeq(t, LAMBDA c : c \notin WhiteSpace)

\* The canonical spelling of an identifier value under its scheme, by the
\* rules of the claim: a CIK that is a number is that number in ten digits,
\* an LEI is upper case, a ticker:exchange pair is upper case around one
\* colon; any other value is the trimmed text.
CanonicalValue(scheme_n, value) ==
    LET v == StripText(value)
    IN IF scheme_n = TxtSecCik /\ IsDigitText(v)
       THEN ZFillText(DropLeadingZeros(v), CikWidth)
       ELSE IF scheme_n = TxtGleifLei THEN UpperText(v)
       ELSE IF scheme_n = TxtTickerExchange THEN UpperText(WithoutSpaces(v))
       ELSE v

\* Two calls name the same identifier: same canonical scheme, same canonical value.
SameIdentifier(a, b) ==
    /\ SchemeAliasText(a.scheme) = SchemeAliasText(b.scheme)
    /\ SchemeAliasText(a.scheme) # <<>>
    /\ CanonicalValue(SchemeAliasText(a.scheme), a.value)
           = CanonicalValue(SchemeAliasText(b.scheme), b.value)
    /\ CanonicalValue(SchemeAliasText(a.scheme), a.value) # <<>>

\* C13: two spellings of one identifier (differing in zero padding of a CIK,
\* in the case of an LEI or of a ticker:exchange pair, in white space, or in
\* a scheme alias) resolve to the same entity, which carries one identifier
\* row for them.
C13_SpellingsResolveAlike ==
    \A i \in DOMAIN idCalls : \A j \in DOMAIN idCalls :
        (i < j /\ SameIdentifier(idCalls[i], idCalls[j])) =>
            /\ idCalls[i].raised = "" /\ idCalls[j].raised = ""
            /\ idCalls[i].entity_id = idCalls[j].entity_id
            /\ Cardinality({r \in idStore.identifiers :
                               /\ r.entity_id = idCalls[i].entity_id
                               /\ r.scheme = SchemeAliasText(idCalls[i].scheme)}) = 1

IsAlnumText(t) ==
    \A i \in DOMAIN t :
        t[i] \in DigitChars \cup Range(LowerLetters) \cup Range(UpperLetters)

ColonAt(t) == {i \in DOMAIN t : t[i] = ":"}

\* The value is not a well-formed identifier of the scheme: an LEI that is
\* not 20 alphanumeric characters, a ticker:exchange pair without exactly one
\* colon or with an empty side.
InvalidForScheme(scheme_n, value) ==
    LET v == WithoutSpaces(value)
    IN \/ scheme_n = TxtGleifLei /\ ~(Len(v) = 20 /\ IsAlnumText(v))
       \/ /\ scheme_n = TxtTickerExchange
          /\ \/ Cardinality(ColonAt(v)) # 1
             \/ 1 \in ColonAt(v)
             \/ Len(v) \in ColonAt(v)

\* C15: a call with a value that is not valid for its scheme raises
\* ValueError, and no identifier row is stored for it.
C15_InvalidValueRejected ==
    \A i \in DOMAIN idCalls :
        LET scheme_n == SchemeAliasText(idCalls[i].scheme)
        IN InvalidForScheme(scheme_n, idCalls[i].value) =>
               /\ idCalls[i].raised = "ValueError"
               /\ ~\E r \in idStore.identifiers :
                      /\ r.scheme = scheme_n
                      /\ r.value = NormalizeIdentifierValueText(scheme_n, idCalls[i].value)


(***************************************************************************)
(* Part 6: SlidingWindowRateLimiter (utils/sec_edgar_api.py).  Time is a   *)
(* clock of ticks that runs on its own; a thread inside acquire() reads    *)
(* the clock, then enters the locked block, then either returns or sleeps. *)
(* A thread can be held up between any two of these steps (scheduling, the *)
(* wait for the lock).                                                     *)
(***************************************************************************)
MaxLimiterThreads == 2
MaxClock == 4
MaxRequestsTried == 2
MaxWindowTried == 2
MaxGrants == 4

LimiterThreads == 1..MaxLimiterThreads

LimInit ==
    /\ ShardIdle
    /\ IngestIdle
    /\ AdmIdle
    /\ ApiIdle
    /\ PollIdle
    /\ NormIdle
    /\ HttpIdle
    /\ JobIdle
    /\ SecIdle
    /\ rlMax \in 1..MaxRequestsTried
    /\ rlWindow \in 1..MaxWindowTried
    /\ rlClock = 0
    /\ rlEvents = <<>>
    /\ rlThread = [t \in LimiterThreads |-> [pc |-> "call", now |-> 0, wake |-> 0]]
    /\ rlGrants = <<>>

\* Time passes.
Tick ==
    /\ rlClock < MaxClock
    /\ rlClock' = rlClock + 1
    /\ UNCHANGED <<rlMax, rlWindow, rlEvents, rlThread, rlGrants>>

\* now = time.monotonic(), at the top of the loop and outside the lock.
AcquireReadNow(t) ==
    /\ rlThread[t].pc = "call"
    /\ Len(rlGrants) < MaxGrants
    /\ rlThread' = [rlThread EXCEPT ![t] = [@ EXCEPT !.pc = "lock", !.now = rlClock]]
    /\ UNCHANGED <<rlMax, rlWindow, rlClock, rlEvents, rlGrants>>

\* while self._events and self._events[0] <= cutoff: popleft()
RECURSIVE DropExpired(_, _)
DropExpired(events, cutoff) ==
    IF events # <<>> /\ Head(events) <= cutoff
    THEN DropExpired(Tail(events), cutoff) ELSE events

\* len(self._events) < self._max_requests
HasRoom(events, max_requests) == Len(events) < max_requests

\* The block under self._lock: expired events are dropped; with room left
\* the thread's reading of the clock is appended and acquire() returns;
\* otherwise the thread sleeps until the oldest event leaves the window, as
\* computed from its reading of the clock.
AcquireLocked(t) ==
    /\ rlThread[t].pc = "lock"
    /\ LET now == rlThread[t].now
           kept == DropExpired(rlEvents, now - rlWindow)
       IN IF HasRoom(kept, rlMax)
          THEN /\ rlEvents' = Append(kept, now)
               /\ rlGrants' = Append(rlGrants, rlClock)
               /\ rlThread' = [rlThread EXCEPT ![t] = [@ EXCEPT !.pc = "call"]]
          ELSE /\ rlEvents' = kept
               /\ rlGrants' = rlGrants
               /\ rlThread' = [rlThread EXCEPT ![t] =
                      [@ EXCEPT !.pc = "sleep",
                                !.wake = rlClock + (Head(kept) + rlWindow - now)]]
    /\ UNCHANGED <<rlMax, rlWindow, rlClock>>

\* time.sleep(sleep_for) is over: back to the top of the loop.
AcquireWake(t) ==
    /\ rlThread[t].pc = "sleep"
    /\ rlClock >= rlThread[t].wake
    /\ rlThread' = [rlThread EXCEPT ![t] = [@ EXCEPT !.pc = "call"]]
    /\ UNCHANGED <<rlMax, rlWindow, rlClock, rlEvents, rlGrants>>

LimNext ==
    /\ \/ Tick
       \/ \E t \in LimiterThreads :
              \/ AcquireReadNow(t)
              \/ AcquireLocked(t)
              \/ AcquireWake(t)
    /\ UNCHANGED otherThanLim

SpecLim == LimInit /\ [][LimNext]_vars

\* The calls granted in the window of length rlWindow that starts at tick s.
GrantedIn(s) == {i \in DOMAIN rlGrants : s <= rlGrants[i] /\ rlGrants[i] < s + rlWindow}

\* C16: in no window of length window_seconds have more than max_requests
\* calls of acquire() returned.
C16_AtMostMaxPerWindow ==
    \A s \in 0..MaxClock : Cardinality(GrantedIn(s)) <= rlMax


(***************************************************************************)
(* Part 7: _request (utils/sec_edgar_api.py), one HTTP GET with throttling *)
(* and retries.  What the server and the network do on each attempt is     *)
(* free; rate_limiter.acquire() and s.get(timeout=...) come back.          *)
(***************************************************************************)
MaxAttemptsTried == 3

\* Retry-After headers: absent, seconds, negative seconds, an HTTP date.
RetryAfterHeaders == {None, "0", "-1", "3600", "Wed, 21 Oct 2015 07:28:00 GMT"}

NoSeconds == -1000

\* _parse_retry_after_seconds: float(int(v)), or None (NoSeconds) when the
\* header is absent, blank or not an integer.
ParseRetryAfterSeconds(value) ==
    CASE value = "0" -> 0
      [] value = "-1" -> -1
      [] value = "3600" -> 3600
      [] OTHER -> NoSeconds

\* What one s.get() can give: a requests exception, or a response.
GetOutcomes ==
    {[kind |-> "exception", status |-> 0, retry_after |-> None]}
        \cup [kind : {"response"},
              status : {200, 403, 429, 501, 503},
              retry_after : RetryAfterHeaders]

\* A variant that takes every status below 500 for a success.
IsSuccessBelow500(status) == status < 500

\* 200 <= resp.status_code < 300
IsSuccess(status) == 200 <= status /\ status < 300

\* resp.status_code in (429, 500, 502, 503, 504)
IsRetryable(status) == status \in {429, 500, 502, 503, 504}

HttpInit ==
    /\ ShardIdle
    /\ IngestIdle
    /\ AdmIdle
    /\ ApiIdle
    /\ PollIdle
    /\ NormIdle
    /\ LimIdle
    /\ JobIdle
    /\ SecIdle
    /\ httpMax \in 0..MaxAttemptsTried
    /\ httpPc = "start"
    /\ httpAttempt = 0
    /\ httpLog = <<>>
    /\ httpResult = "none"
    /\ httpSlept = 0

HttpRaise(exc) == httpPc' = "done" /\ httpResult' = exc

\* The entry of _request: the check of max_attempts, then the loop.
RequestStart ==
    /\ httpPc = "start"
    /\ IF httpMax <= 0
       THEN HttpRaise("ValueError")
       ELSE httpPc' = "attempt" /\ httpResult' = httpResult
    /\ UNCHANGED <<httpMax, httpAttempt, httpLog, httpSlept>>

\* One pass of the loop body: acquire(), s.get(), and what is made of it.
\* time.sleep(retry_after) raises ValueError for a negative length.
RequestAttempt ==
    /\ httpPc = "attempt"
    /\ httpAttempt < httpMax
    /\ \E out \in GetOutcomes :
           /\ httpLog' = Append(httpLog, out)
           /\ IF out.kind = "exception"
              THEN IF httpAttempt < httpMax - 1
                   THEN httpPc' = "backoff" /\ httpResult' = httpResult
                   ELSE HttpRaise("RequestException")
              ELSE IF IsSuccess(out.status)
              THEN httpPc' = "done" /\ httpResult' = "SecResponse"
              ELSE IF IsRetryable(out.status) /\ httpAttempt < httpMax - 1
              THEN IF ParseRetryAfterSeconds(out.retry_after) # NoSeconds
                      /\ ParseRetryAfterSeconds(out.retry_after) < 0
                   THEN HttpRaise("ValueError")
                   ELSE httpPc' = "backoff" /\ httpResult' = httpResult
              ELSE HttpRaise("SecEdgarApiError")
    /\ UNCHANGED <<httpMax, httpAttempt, httpSlept>>

\* Lengths of sleeps are counted in half seconds.
UnitsPerSecond == 2

\* base_seconds = 0.5 and cap_seconds = 8.0, in half seconds.
BaseDelay == 1

CapDelay == 16

\* _sleep_backoff: delay = min(base_seconds * (2**attempt_index), cap_seconds)
BackoffDelay(attempt_index) ==
    IF BaseDelay * 2^attempt_index < CapDelay THEN BaseDelay * 2^attempt_index
    ELSE CapDelay

\* The sleep after a failed attempt: time.sleep(retry_after) when the
\* response carried Retry-After seconds, _sleep_backoff(attempt) otherwise.
SleepLength(out, attempt) ==
    IF out.kind = "response" /\ ParseRetryAfterSeconds(out.retry_after) # NoSeconds
    THEN UnitsPerSecond * ParseRetryAfterSeconds(out.retry_after)
    ELSE BackoffDelay(attempt)

\* The sleep (Retry-After seconds, or _sleep_backoff) is over: continue.
RequestBackoff ==
    /\ httpPc = "backoff"
    /\ httpSlept' = httpSlept + SleepLength(httpLog[Len(httpLog)], httpAttempt)
    /\ httpAttempt' = httpAttempt + 1
    /\ httpPc' = "attempt"
    /\ UNCHANGED <<httpMax, httpLog, httpResult>>

HttpNext ==
    /\ \/ RequestStart
       \/ RequestAttempt
       \/ RequestBackoff
    /\ UNCHANGED otherThanHttp

SpecHttp == HttpInit /\ [][HttpNext]_vars

\* Every call and every sleep of _request comes back: s.get has a timeout, the
\* sleeps are finite, acquire() is taken to return.
SpecHttpFair == SpecHttp /\ WF_vars(HttpNext)

Succeeded(out) == out.kind = "response" /\ 200 <= out.status /\ out.status < 300

\* C17: whatever the attempts give, the fetch ends, it has made at most
\* max_attempts attempts, and it has returned a result only if an attempt
\* succeeded: otherwise it has raised an error.
C17_BoundedAttemptsThenRaise ==
    /\ [](Len(httpLog) <= httpMax)
    /\ <>(httpPc = "done")
    /\ [](httpPc = "done" =>
              /\ httpResult \in {"SecResponse", "ValueError", "SecEdgarApiError",
                                 "RequestException"}
              /\ httpResult = "SecResponse" <=>
                     \E i \in DOMAIN httpLog : Succeeded(httpLog[i]))

\* Three attempts, a 429, a transport error and a 503, and the call has raised.
C17_Witness ==
    /\ httpPc = "done"
    /\ httpMax = 3
    /\ Len(httpLog) = 3
    /\ httpLog[1].kind = "response" /\ httpLog[1].status = 429
    /\ httpLog[2].kind = "exception"
    /\ httpLog[3].kind = "response" /\ httpLog[3].status = 503
    /\ httpResult = "SecEdgarApiError"


(***************************************************************************)
(* Part 8: the background jobs of the web tier.  Three jobs share one      *)
(* shape: start() takes the job's lock, refuses when the job is running,   *)
(* marks it running otherwise and starts a runner thread.                  *)
(*   "manager"  PopulateDailyValuesJob (api/jobs/manager.py): the runner   *)
(*              launches the script as a subprocess; request_stop sets the *)
(*              flag and terminates the subprocess it finds recorded.      *)
(*   "recreate" RecreateSqliteDbJob: the runner calls main(); no stop.     *)
(*   "routes"   the handlers of api/routes.py: the runner calls main();    *)
(*              the stop handler sets the flag.                            *)
(* A runner is [pc, work]; work is the state of the script it runs:        *)
(* "none", "running", "exited", "terminated" (SIGTERM) or "killed".        *)
(* Exceptions in the runner (they end in the same finally block) are not   *)
(* modelled.                                                               *)
(***************************************************************************)
MaxStartRequests == 3
MaxStopRequests == 2

StartRequests == 1..MaxStartRequests

JobInit ==
    /\ ShardIdle
    /\ IngestIdle
    /\ AdmIdle
    /\ ApiIdle
    /\ PollIdle
    /\ NormIdle
    /\ LimIdle
    /\ HttpIdle
    /\ SecIdle
    /\ jobImpl \in {"manager", "recreate", "routes"}
    /\ jobFlags = [running |-> FALSE, stop_requested |-> FALSE, proc |-> 0,
                   error |-> FALSE]
    /\ jobReq = [r \in StartRequests |-> [pc |-> "idle", ret |-> "none", saw |-> FALSE]]
    /\ jobRun = <<>>
    /\ jobStop = [pc |-> "idle", proc |-> 0, left |-> MaxStopRequests]

\* The runs in progress: runner threads that have not ended, and threads
\* that start() is about to start.
RunsInProgress == {i \in DOMAIN jobRun : jobRun[i].pc # "ended"}

RunsBeingStarted == {r \in StartRequests : jobReq[r].pc = "spawn"}

SetRun(i, pc_new) == jobRun' = [jobRun EXCEPT ![i] = [@ EXCEPT !.pc = pc_new]]

\* A variant that never refuses.
StartRefusedNever(flags) == FALSE

\* if self._state.running: return False
StartRefused(flags) == flags.running

\* The locked block of start().
StartLocked(r) ==
    /\ jobReq[r].pc = "idle"
    /\ LET saw == RunsInProgress # {} \/ RunsBeingStarted # {}
       IN IF StartRefused(jobFlags)
          THEN /\ jobReq' = [jobReq EXCEPT ![r] =
                                [pc |-> "done", ret |-> "False", saw |-> saw]]
               /\ jobFlags' = jobFlags
          ELSE /\ jobReq' = [jobReq EXCEPT ![r] =
                                [pc |-> "spawn", ret |-> "none", saw |-> saw]]
               /\ jobFlags' = [running |-> TRUE, stop_requested |-> FALSE,
                               proc |-> 0, error |-> FALSE]
    /\ UNCHANGED <<jobImpl, jobRun, jobStop>>

\* t.start(); return True
StartSpawn(r) ==
    /\ jobReq[r].pc = "spawn"
    /\ jobRun' = Append(jobRun,
                        [pc |-> IF jobImpl = "recreate" THEN "launch" ELSE "create_all",
                         work |-> "none"])
    /\ jobReq' = [jobReq EXCEPT ![r] = [@ EXCEPT !.pc = "done", !.ret = "True"]]
    /\ UNCHANGED <<jobImpl, jobFlags, jobStop>>

\* Base.metadata.create_all(bind=engine)
RunnerCreateAll(i) ==
    /\ jobRun[i].pc = "create_all"
    /\ SetRun(i, "check")
    /\ UNCHANGED <<jobImpl, jobFlags, jobReq, jobStop>>

\* with lock: if stop_requested: return  (the one place the flag is read)
RunnerCheckStop(i) ==
    /\ jobRun[i].pc = "check"
    /\ SetRun(i, IF ~jobFlags.stop_requested THEN "launch"
                 ELSE IF jobImpl = "manager" THEN "finally" ELSE "cleanup")
    /\ UNCHANGED <<jobImpl, jobFlags, jobReq, jobStop>>

\* subprocess.Popen(cmd), or the call of main() in the runner thread.
RunnerLaunch(i) ==
    /\ jobRun[i].pc = "launch"
    /\ jobRun' = [jobRun EXCEPT ![i] =
                     [pc |-> IF jobImpl = "manager" THEN "set_proc" ELSE "wait",
                      work |-> "running"]]
    /\ UNCHANGED <<jobImpl, jobFlags, jobReq, jobStop>>

\* with self._lock: self._proc = proc
RunnerSetProc(i) ==
    /\ jobRun[i].pc = "set_proc"
    /\ jobFlags' = [jobFlags EXCEPT !.proc = i]
    /\ SetRun(i, "wait")
    /\ UNCHANGED <<jobImpl, jobReq, jobStop>>

\* The script comes to its end by itself.
WorkEnds(i) ==
    /\ jobRun[i].work = "running"
    /\ jobRun' = [jobRun EXCEPT ![i] = [@ EXCEPT !.work = "exited"]]
    /\ UNCHANGED <<jobImpl, jobFlags, jobReq, jobStop>>

\* proc.wait() returns (a non-zero exit code sets the error), or main() returns.
RunnerWaitReturns(i) ==
    /\ jobRun[i].pc = "wait"
    /\ jobRun[i].work \in {"exited", "terminated"}
    /\ jobFlags' = [jobFlags EXCEPT !.error = @ \/ jobRun[i].work = "terminated"]
    /\ SetRun(i, IF jobImpl = "manager" THEN "finally" ELSE "cleanup")
    /\ UNCHANGED <<jobImpl, jobReq, jobStop>>

\* finally: the recorded process, if it is still alive, is killed.
RunnerFinally(i) ==
    /\ jobRun[i].pc = "finally"
    /\ jobRun' = [k \in DOMAIN jobRun |->
                     [pc |-> IF k = i THEN "cleanup" ELSE jobRun[k].pc,
                      work |-> IF k = jobFlags.proc /\ jobRun[k].work = "running"
                               THEN "killed" ELSE jobRun[k].work]]
    /\ UNCHANGED <<jobImpl, jobFlags, jobReq, jobStop>>

\* finally, with the lock: _proc = None, running = False, ended_at = now.
RunnerCleanup(i) ==
    /\ jobRun[i].pc = "cleanup"
    /\ jobFlags' = [jobFlags EXCEPT !.running = FALSE, !.proc = 0]
    /\ SetRun(i, "ended")
    /\ UNCHANGED <<jobImpl, jobReq, jobStop>>

\* The stop handler, locked block: the flag is set; request_stop of the
\* manager also reads the recorded process.  RecreateSqliteDbJob has no stop.
StopLocked ==
    /\ jobImpl # "recreate"
    /\ jobStop.pc = "idle"
    /\ jobStop.left > 0
    /\ jobFlags' = [jobFlags EXCEPT !.stop_requested = TRUE]
    /\ jobStop' = IF jobImpl = "manager" /\ jobFlags.proc # 0
                  THEN [pc |-> "terminate", proc |-> jobFlags.proc,
                        left |-> jobStop.left - 1]
                  ELSE [pc |-> "idle", proc |-> 0, left |-> jobStop.left - 1]
    /\ UNCHANGED <<jobImpl, jobReq, jobRun>>

\* A variant in which the script ignores the signal.
AfterTerminateIgnored(work) == work

\* SIGTERM ends a script that is running.
AfterTerminate(work) == IF work = "running" THEN "terminated" ELSE work

\* request_stop, after the lock: proc.terminate()
StopTerminate ==
    /\ jobStop.pc = "terminate"
    /\ jobRun' = [jobRun EXCEPT ![jobStop.proc] =
                     [@ EXCEPT !.work = AfterTerminate(@)]]
    /\ jobStop' = [jobStop EXCEPT !.pc = "idle", !.proc = 0]
    /\ UNCHANGED <<jobImpl, jobFlags, jobReq>>

JobNext ==
    /\ \/ \E r \in StartRequests : StartLocked(r) \/ StartSpawn(r)
       \/ \E i \in DOMAIN jobRun :
              \/ RunnerCreateAll(i)
              \/ RunnerCheckStop(i)
              \/ RunnerLaunch(i)
              \/ RunnerSetProc(i)
              \/ WorkEnds(i)
              \/ RunnerWaitReturns(i)
              \/ RunnerFinally(i)
              \/ RunnerCleanup(i)
       \/ StopLocked
       \/ StopTerminate
    /\ UNCHANGED otherThanJob

SpecJob == JobInit /\ [][JobNext]_vars

\* C18: at most one run of a job is in progress at any time, and a call of
\* start() returns False exactly when it found a run in progress (True, and a
\* new run, otherwise).
C18_OneRunAtATime ==
    /\ Cardinality(RunsInProgress) + Cardinality(RunsBeingStarted) <= 1
    /\ \A r \in StartRequests :
           jobReq[r].pc = "done" => (jobReq[r].ret = "False" <=> jobReq[r].saw)
    /\ Len(jobRun) = Cardinality({r \in StartRequests : jobReq[r].ret = "True"})

\* A run is in progress, one call of start() has returned True and another False.
C18_Witness ==
    /\ RunsInProgress # {}
    /\ \E r1 \in StartRequests : \E r2 \in StartRequests :
           /\ jobReq[r1].pc = "done" /\ jobReq[r1].ret = "True"
           /\ jobReq[r2].pc = "done" /\ jobReq[r2].ret = "False"

MaxFilings == 3
MaxLimit == 2
MaxPoolWorkers == 2

FilingIds == 1..MaxFilings

\* sec_filings.form_type of the rows of the table.
FormTypeOf(id) == IF id % 2 = 1 THEN "10-K" ELSE "8-K"

\* What sec_filings.document_url of a row is: a document under
\* /Archives/edgar/data/<cik>/, no URL at all, a URL without the marker that
\* carries the CIK, or a URL that ends in a slash.
DocumentUrlOf(id) ==
    CASE id % 4 = 2 -> "missing"
      [] id % 4 = 0 -> "no_cik"
      [] id = 5     -> "no_name"
      [] OTHER      -> "document"

\* The --form-types argument; the empty set stands for None.
FormTypeArgs == {{}, {"10-K"}}

\* The rows a sec_filings table can hold: fetch_status is NOT NULL with
\* default "pending"; only a fetched row has fetched_at.
FilingRows(id) ==
    { [form_type |-> FormTypeOf(id), fetch_status |-> "pending", fetched_at |-> "None"],
      [form_type |-> FormTypeOf(id), fetch_status |-> "failed", fetched_at |-> "None"],
      [form_type |-> FormTypeOf(id), fetch_status |-> "fetched", fetched_at |-> "t0"] }

\* utcnow() during the run.
UtcNow == "t1"

\* The results _fetch_and_save_one can return for a filing; it catches every
\* exception of the download and of the write.
FetchAndSaveOne(id) ==
    CASE DocumentUrlOf(id) = "missing" ->
             {[filing_id |-> id, ok |-> FALSE, error |-> "missing_document_url"]}
      [] DocumentUrlOf(id) = "no_cik" ->
             {[filing_id |-> id, ok |-> FALSE, error |-> "cannot_infer_cik"]}
      [] DocumentUrlOf(id) = "no_name" ->
             {[filing_id |-> id, ok |-> FALSE, error |-> "cannot_infer_document_name"]}
      [] OTHER ->
             {[filing_id |-> id, ok |-> TRUE, error |-> "None"],
              [filing_id |-> id, ok |-> FALSE, error |-> "SecEdgarApiError"],
              [filing_id |-> id, ok |-> FALSE, error |-> "Exception"]}

\* The filter of the query of run_ingest.
IsSelectable(table, id, form_types) ==
    /\ table[id].fetch_status \in {"None", "pending"}
    /\ (form_types # {} => table[id].form_type \in form_types)

RECURSIVE FirstSelectable(_, _, _, _)
\* order_by(id).limit(limit).all(): the ids from `from` on that pass the
\* filter, in ascending order, at most `limit` of them.
FirstSelectable(table, form_types, from, limit) ==
    IF from > MaxFilings \/ limit <= 0 THEN <<>>
    ELSE IF IsSelectable(table, from, form_types)
         THEN <<from>> \o FirstSelectable(table, form_types, from + 1, limit - 1)
         ELSE FirstSelectable(table, form_types, from + 1, limit)

\* max(1, int(workers)): the size of the thread pool.
PoolSize(workers) == IF workers < 1 THEN 1 ELSE workers

ResultStatusFailedStaysPending(ok) == IF ok THEN "fetched" ELSE "pending"

\* The fetch_status the loop over the completed futures gives a filing.
ResultStatus(ok) == IF ok THEN "fetched" ELSE "failed"

SecInit ==
    /\ ShardIdle
    /\ IngestIdle
    /\ AdmIdle
    /\ ApiIdle
    /\ PollIdle
    /\ NormIdle
    /\ LimIdle
    /\ HttpIdle
    /\ JobIdle
    /\ sfArgs \in [limit : 1..MaxLimit, workers : 0..MaxPoolWorkers,
                   form_types : FormTypeArgs]
    /\ sfDb \in {t \in [FilingIds -> UNION {FilingRows(id) : id \in FilingIds}] :
                     \A id \in FilingIds : t[id] \in FilingRows(id)}
    /\ sfSess = sfDb
    /\ sfFut = <<>>
    /\ sfRun = [pc |-> "select", selected |-> <<>>, handled |-> {},
                fetched |-> 0, failed |-> 0,
                summary |-> [selected |-> 0, fetched |-> 0, failed |-> 0]]

\* The query, the early return when nothing is selected, and the submission
\* of one future per selected filing.
SelectFilings ==
    /\ sfRun.pc = "select"
    /\ LET filings == FirstSelectable(sfSess, sfArgs.form_types, 1, sfArgs.limit)
       IN  IF filings = <<>>
           THEN /\ sfRun' = [sfRun EXCEPT !.pc = "returned"]
                /\ UNCHANGED sfFut
           ELSE /\ sfRun' = [sfRun EXCEPT !.pc = "pool", !.selected = filings]
                /\ sfFut' = [i \in 1..Len(filings) |->
                                [state |-> "pending", filing_id |-> filings[i],
                                 ok |-> FALSE, error |-> "None"]]
    /\ UNCHANGED <<sfArgs, sfDb, sfSess>>
    /\ UNCHANGED otherThanSec

\* A free thread of the pool takes the oldest future of the work queue.
PoolThreadTakes(i) ==
    /\ sfRun.pc = "pool"
    /\ i \in DOMAIN sfFut
    /\ sfFut[i].state = "pending"
    /\ \A j \in 1..(i - 1) : sfFut[j].state # "pending"
    /\ Cardinality({j \in DOMAIN sfFut : sfFut[j].state = "running"})
           < PoolSize(sfArgs.workers)
    /\ sfFut' = [sfFut EXCEPT ![i].state = "running"]
    /\ UNCHANGED <<sfArgs, sfDb, sfSess, sfRun>>
    /\ UNCHANGED otherThanSec

\* _fetch_and_save_one returns in a thread of the pool.
PoolThreadReturns(i) ==
    /\ sfRun.pc = "pool"
    /\ i \in DOMAIN sfFut
    /\ sfFut[i].state = "running"
    /\ \E res \in FetchAndSaveOne(sfFut[i].filing_id) :
           sfFut' = [sfFut EXCEPT ![i] = [state |-> "finished",
                                          filing_id |-> res.filing_id,
                                          ok |-> res.ok, error |-> res.error]]
    /\ UNCHANGED <<sfArgs, sfDb, sfSess, sfRun>>
    /\ UNCHANGED otherThanSec

\* One turn of the loop over as_completed(futs): any finished future not yet
\* handled; the filing is looked up again by id and marked.
HandleCompleted(i) ==
    /\ sfRun.pc = "pool"
    /\ i \in DOMAIN sfFut
    /\ sfFut[i].state = "finished"
    /\ i \notin sfRun.handled
    /\ LET id == sfFut[i].filing_id
       IN  IF id \notin DOMAIN sfSess
           THEN /\ sfRun' = [sfRun EXCEPT !.handled = @ \cup {i}]
                /\ UNCHANGED sfSess
           ELSE /\ sfSess' = [sfSess EXCEPT
                                 ![id].fetch_status = ResultStatus(sfFut[i].ok),
                                 ![id].fetched_at =
                                     IF sfFut[i].ok THEN UtcNow ELSE @]
                /\ sfRun' = [sfRun EXCEPT
                                 !.handled = @ \cup {i},
                                 !.fetched = IF sfFut[i].ok THEN @ + 1 ELSE @,
                                 !.failed = IF sfFut[i].ok THEN @ ELSE @ + 1]
    /\ UNCHANGED <<sfArgs, sfDb, sfFut>>
    /\ UNCHANGED otherThanSec

\* The pool has shut down: session.commit() and the summary.
CommitAndReturn ==
    /\ sfRun.pc = "pool"
    /\ sfRun.handled = DOMAIN sfFut
    /\ sfDb' = sfSess
    /\ sfRun' = [sfRun EXCEPT
                     !.pc = "returned",
                     !.summary = [selected |-> Len(sfRun.selected),
                                  fetched |-> sfRun.fetched,
                                  failed |-> sfRun.failed]]
    /\ UNCHANGED <<sfArgs, sfSess, sfFut>>
    /\ UNCHANGED otherThanSec

SecNext ==
    \/ SelectFilings
    \/ \E i \in 1..MaxFilings : PoolThreadTakes(i)
    \/ \E i \in 1..MaxFilings : PoolThreadReturns(i)
    \/ \E i \in 1..MaxFilings : HandleCompleted(i)
    \/ CommitAndReturn

SpecSec == SecInit /\ [][SecNext]_vars

\* The main thread and the threads of the pool keep running until the pass
\* returns.
SpecSecFair == SpecSec /\ WF_vars(SecNext)

\* The filings the run selected, as a set.
SelectedIds == {sfRun.selected[i] : i \in DOMAIN sfRun.selected}

\* C20: every pass of the ingest job returns, and when it has returned every
\* filing it selected is committed either as "fetched" with its fetch time
\* set or as "failed", none of them is still pending, and the selected count
\* of the summary is the number of selected filings and equals the fetched
\* count plus the failed count, which count the filings so marked.
C20_SelectedEndFetchedOrFailed ==
    /\ <>(sfRun.pc = "returned")
    /\ [](sfRun.pc = "returned" =>
            /\ \A id \in SelectedIds :
                   \/ sfDb[id].fetch_status = "fetched" /\ sfDb[id].fetched_at = "t1"
                   \/ sfDb[id].fetch_status = "failed"
            /\ sfRun.summary.selected = Cardinality(SelectedIds)
            /\ sfRun.summary.selected = sfRun.summary.fetched + sfRun.summary.failed
            /\ sfRun.summary.fetched =
                   Cardinality({id \in SelectedIds : sfDb[id].fetch_status = "fetched"})
            /\ sfRun.summary.failed =
                   Cardinality({id \in SelectedIds : sfDb[id].fetch_status = "failed"}))

\* A pass that selected two filings has returned: the first is fetched and
\* the second failed.
C20_Witness ==
    /\ sfRun.pc = "returned"
    /\ Len(sfRun.selected) = 2
    /\ sfRun.summary.fetched = 1
    /\ sfRun.summary.failed = 1
    /\ sfDb[sfRun.selected[2]].fetch_status = "failed"
    /\ sfDb[sfRun.selected[1]].fetch_status = "fetched"

\* ---------------------------------------------------------------------------
\* Part 10.  The SEC Atom feed poller (jobs/sec_rss_poller.py).
\*
\* run_poll walks the parsed entries of a feed, looks up the sec_cik
\* identifier and the filing of each, adds a SecFiling for what it did not
\* find and commits once at the end.  sec_filings carries the unique
\* constraint uq_sec_filings_entity_accession.
\* ---------------------------------------------------------------------------

MaxPolls == 2
MaxFeedLen == 2

\* entity_identifiers rows of scheme sec_cik: value -> entity_id; 0 for a CIK
\* that has no row.
IdentEntityId(cik) ==
    CASE cik = "0000320193" -> 1
      [] cik = "0000789019" -> 2
      [] OTHER -> 0

\* What parse_atom_entries can give for an entry: any of cik, accession_number
\* and form_type may be None.
EntryOf(c, a, f) == [cik |-> c, accession_number |-> a, form_type |-> f]

FeedEntries ==
    { EntryOf("0000320193", "000032019324000001", "8-K"),
      EntryOf("0000320193", "000032019324000002", "10-K"),
      EntryOf("0000789019", "000032019324000001", "4"),
      EntryOf("0000000001", "000000000124000001", "10-K"),
      EntryOf(None, "000032019324000001", "8-K"),
      EntryOf("0000320193", None, "8-K"),
      EntryOf("0000320193", "000032019324000001", None) }

RECURSIVE FeedsUpTo(_)
FeedsUpTo(n) ==
    IF n = 0 THEN {<<>>}
    ELSE FeedsUpTo(n - 1) \cup
         {Append(f, e) : f \in {g \in FeedsUpTo(n - 1) : Len(g) = n - 1},
                         e \in FeedEntries}

\* The values of --limit tried.
PollLimits == {-1, 1, 50}

\* parse_atom_entries(atom)[: max(0, int(limit))]
LimitEntries(all, limit) ==
    LET n == IF limit < 0 THEN 0 ELSE limit
    IN  SubSeq(all, 1, IF n < Len(all) THEN n ELSE Len(all))

\* What a query of the session sees: the committed rows, and the rows it
\* added itself when it flushes before querying.
SessionRows(committed, pending, autoflush) ==
    IF autoflush THEN committed \o pending ELSE committed

ExistingFilingNeverFound(rows, entity_id, acc) == FALSE

\* session.query(SecFiling).filter_by(entity_id, accession_number).first()
\* is not None
ExistingFiling(rows, entity_id, acc) ==
    \E k \in DOMAIN rows :
        rows[k].entity_id = entity_id /\ rows[k].accession_number = acc

\* uq_sec_filings_entity_accession: an INSERT of these rows would fail.
ViolatesUnique(rows) ==
    \E k \in DOMAIN rows : \E l \in DOMAIN rows :
        /\ k < l
        /\ rows[k].entity_id = rows[l].entity_id
        /\ rows[k].accession_number = rows[l].accession_number

IdlePoll ==
    [pc |-> "idle", entries |-> <<>>, i |-> 0, pending |-> <<>>,
     autoflush |-> FALSE, inserted |-> 0, unknown |-> 0,
     result |-> "", startDb |-> <<>>]

PollInit ==
    /\ ShardIdle
    /\ IngestIdle
    /\ AdmIdle
    /\ ApiIdle
    /\ NormIdle
    /\ LimIdle
    /\ HttpIdle
    /\ JobIdle
    /\ SecIdle
    /\ pollDb = <<>>
    /\ pollRun = IdlePoll
    /\ pollCount = 0

\* run_poll is called: the feed is fetched and parsed, and cut to the limit.
\* The session flushes before queries or not, as its maker set it up.
PollStart ==
    /\ pollRun.pc = "idle"
    /\ pollCount < MaxPolls
    /\ \E feed \in FeedsUpTo(MaxFeedLen) : \E limit \in PollLimits :
       \E flush \in BOOLEAN :
           pollRun' = [IdlePoll EXCEPT
                          !.pc = "loop",
                          !.entries = LimitEntries(feed, limit),
                          !.i = 1,
                          !.autoflush = flush,
                          !.startDb = pollDb]
    /\ pollCount' = pollCount + 1
    /\ UNCHANGED pollDb
    /\ UNCHANGED otherThanPoll

\* The poll ends with the exception of a failed INSERT; the session goes away
\* with what it had added.
PollRaise ==
    /\ pollRun' = [pollRun EXCEPT !.pc = "idle", !.result = "IntegrityError",
                                  !.pending = <<>>]
    /\ UNCHANGED <<pollDb, pollCount>>

\* One turn of the loop over the entries.
PollEntry ==
    /\ pollRun.pc = "loop"
    /\ pollRun.i <= Len(pollRun.entries)
    /\ LET e == pollRun.entries[pollRun.i]
           next == [pollRun EXCEPT !.i = @ + 1]
           ident == IdentEntityId(e.cik)
           rows == SessionRows(pollDb, pollRun.pending, pollRun.autoflush)
       IN  IF e.cik = None
           THEN pollRun' = next /\ UNCHANGED <<pollDb, pollCount>>
           ELSE IF pollRun.autoflush /\ ViolatesUnique(rows)
           THEN PollRaise
           ELSE IF ident = 0
           THEN /\ pollRun' = [next EXCEPT !.unknown = @ + 1]
                /\ UNCHANGED <<pollDb, pollCount>>
           ELSE IF e.accession_number = None \/ e.form_type = None
           THEN pollRun' = next /\ UNCHANGED <<pollDb, pollCount>>
           ELSE IF ExistingFiling(rows, ident, e.accession_number)
           THEN pollRun' = next /\ UNCHANGED <<pollDb, pollCount>>
           ELSE /\ pollRun' = [next EXCEPT
                                  !.pending = Append(@,
                                      [entity_id |-> ident,
                                       accession_number |-> e.accession_number,
                                       form_type |-> e.form_type,
                                       fetch_status |-> "pending",
                                       source |-> "sec_rss"]),
                                  !.inserted = @ + 1]
                /\ UNCHANGED <<pollDb, pollCount>>
    /\ UNCHANGED otherThanPoll

\* session.commit() and the summary.
PollCommit ==
    /\ pollRun.pc = "loop"
    /\ pollRun.i > Len(pollRun.entries)
    /\ IF ViolatesUnique(pollDb \o pollRun.pending)
       THEN PollRaise
       ELSE /\ pollDb' = pollDb \o pollRun.pending
            /\ pollRun' = [pollRun EXCEPT !.pc = "idle", !.result = "summary",
                                          !.pending = <<>>]
            /\ UNCHANGED pollCount
    /\ UNCHANGED otherThanPoll

PollNext ==
    \/ PollStart
    \/ PollEntry
    \/ PollCommit

SpecPoll == PollInit /\ [][PollNext]_vars

\* An entry run_poll can record, and the pair it records it under.
Recordable(e) ==
    /\ e.cik # None /\ IdentEntityId(e.cik) # 0
    /\ e.accession_number # None /\ e.form_type # None

RecordedIn(rows, e) ==
    \E k \in DOMAIN rows :
        /\ rows[k].entity_id = IdentEntityId(e.cik)
        /\ rows[k].accession_number = e.accession_number

AllRecordedBefore ==
    \A k \in DOMAIN pollRun.entries :
        Recordable(pollRun.entries[k]) => RecordedIn(pollRun.startDb, pollRun.entries[k])

PollEnds == pollRun.pc = "loop" /\ pollRun'.pc = "idle"

\* C21: no (entity, accession number) pair is ever in sec_filings twice, and
\* a poll of a feed whose recordable entries were all in sec_filings when it
\* started returns its summary with inserted = 0 and leaves sec_filings as it
\* was.
C21_PairRecordedOnce ==
    /\ [](~ViolatesUnique(pollDb))
    /\ [][(PollEnds /\ AllRecordedBefore) =>
              /\ pollDb' = pollDb
              /\ pollRun'.result = "summary"
              /\ pollRun'.inserted = 0]_vars

\* A later poll met a feed of two recordable entries that earlier polls had
\* recorded, and returned having inserted nothing.
C21_Witness ==
    /\ pollCount >= 2
    /\ pollRun.pc = "idle"
    /\ pollRun.result = "summary"
    /\ pollRun.inserted = 0
    /\ Len(pollRun.entries) = 2
    /\ \A k \in DOMAIN pollRun.entries :
           Recordable(pollRun.entries[k]) /\ RecordedIn(pollRun.startDb, pollRun.entries[k])

\* ---------------------------------------------------------------------------
\* Part 11.  The versioned JSON API (api/api_v1, app.py).
\*
\* A request is routed by the URL map that create_app builds; a path with no
\* route gets the 404 page and an exception in a handler the 500 page, both
\* HTML.  filings_search answers from sec_filings and falls back to EFTS.
\* ---------------------------------------------------------------------------

MaxRequests == 2

\* create_api_v1_blueprint registers filings_v1_bp under /api/v1, and nothing
\* else.
ApiV1Routes == {"/api/v1/filings/search"}

RequestedPaths == {"/api/v1/filings/search", "/api/v1/admin/jobs"}

\* The dates of the rows and of the parameters, in order.
IsoDates == <<"2024-01-01", "2024-06-30", "2024-12-31">>

\* date.fromisoformat(raw): the position of the date, 0 for a ValueError.
DateFromIso(raw) ==
    IF \E k \in DOMAIN IsoDates : IsoDates[k] = raw
    THEN CHOOSE k \in DOMAIN IsoDates : IsoDates[k] = raw
    ELSE 0

\* sec_filings rows: url_cik is the number after /data/ in the URL columns
\* ("None" when the row has no URL), filing_date a position in IsoDates
\* (0 when NULL).
FilingCatalogue ==
    { [id |-> 1, form_type |-> "10-K", url_cik |-> "320193", filing_date |-> 1],
      [id |-> 2, form_type |-> "10-K", url_cik |-> "789019", filing_date |-> 3],
      [id |-> 3, form_type |-> "8-K", url_cik |-> "320193", filing_date |-> 0],
      [id |-> 4, form_type |-> "8-K", url_cik |-> "None", filing_date |-> 2] }

\* The query strings tried, parameter by parameter; "" is an absent one.
QParams == {"", " ", "apple"}
FormTypeParams == {"", "10-K", "S-1"}
CikParams == {"", "0000320193", "abc", "%"}
DateFromParams == {"", "2024-06-30", "junk"}
DateToParams == {"", "2024-06-30"}
LimitParams == {"", "1", "x", "500"}

\* (request.args.get(name) or "").strip()
StripParam(raw) == IF raw = " " THEN "" ELSE raw

DefaultLimit == 20
LimitCap == 200

\* int(... or 20), 20 on a ValueError, then max(1, min(limit, 200)).
ParseLimit(raw) ==
    LET n == CASE raw = "1" -> 1
               [] raw = "500" -> 500
               [] OTHER -> DefaultLimit
        m == IF n < LimitCap THEN n ELSE LimitCap
    IN  IF m < 1 THEN 1 ELSE m

\* cik.isdigit() and str(int(cik)) for the values tried.
CikIsDigit(cik) == cik = "0000320193"
CikAsInt(cik) == IF cik = "0000320193" THEN "320193" ELSE cik

\* The three LIKE '%/data/<cik>/%' tests on the URL columns; '%' in the
\* parameter is a wildcard of LIKE.
UrlLikeNeedle(row, cik) ==
    /\ row.url_cik # "None"
    /\ \/ CikIsDigit(cik) /\ row.url_cik = CikAsInt(cik)
       \/ cik = "%"

\* The filters the handler puts on the query; date bounds are positions in
\* IsoDates, and a NULL filing_date passes no comparison.
LocalFilter(row, req) ==
    /\ (req.form_type # "" => row.form_type = req.form_type)
    /\ (req.cik # "" => UrlLikeNeedle(row, req.cik))
    /\ (req.date_from # "" =>
            row.filing_date # 0 /\ row.filing_date >= DateFromIso(req.date_from))
    /\ (req.date_to # "" =>
            row.filing_date # 0 /\ row.filing_date <= DateFromIso(req.date_to))

\* order_by(filing_date desc nulls last).limit(limit).all(): the possible
\* results, as sets of rows; rows of one date come in any order.
LocalRows(store, req) ==
    LET hits == {r \in store : LocalFilter(r, req)}
        n == IF Cardinality(hits) < req.limit THEN Cardinality(hits) ELSE req.limit
    IN  {S \in SUBSET hits :
            /\ Cardinality(S) = n
            /\ \A r \in S : \A o \in hits \ S : r.filing_date >= o.filing_date}

LocalRowsFoundNever(rows) == FALSE

\* if local_rows:
LocalRowsFound(rows) == rows # {}

\* What fetch_efts_search can do: a list of hits, or an exception of requests.
EftsOutcomes == {"no_hits", "hits", "HTTPError"}

SearchKeys == {"source", "count", "results"}
EnvelopeKeys == {"ok", "data", "error", "meta"}

JsonResponse(status, keys, source, results) ==
    [pc |-> "sent", status |-> status, mimetype |-> "application/json",
     keys |-> keys, source |-> source, results |-> results]

\* render_template("errors/404.html"), 404 and errors/500.html, 500
HtmlResponse(status) ==
    [pc |-> "sent", status |-> status, mimetype |-> "text/html",
     keys |-> {}, source |-> "", results |-> {}]

\* get_jobs: jsonify(ok(data))
GetJobs == JsonResponse(200, EnvelopeKeys, "", {})

NoResponse ==
    [pc |-> "none", status |-> 0, mimetype |-> "", keys |-> {},
     source |-> "", results |-> {}]

ApiInit ==
    /\ ShardIdle
    /\ IngestIdle
    /\ AdmIdle
    /\ NormIdle
    /\ LimIdle
    /\ HttpIdle
    /\ JobIdle
    /\ SecIdle
    /\ PollIdle
    /\ apiStore \in SUBSET FilingCatalogue
    /\ apiReq = [pc |-> "idle"]
    /\ apiResp = NoResponse
    /\ apiEfts = 0
    /\ apiCount = 0

\* A client sends a GET; the handler's reading of the query string is part
\* of the request as the model keeps it.
ApiReceive ==
    /\ apiReq.pc = "idle"
    /\ apiCount < MaxRequests
    /\ \/ \E q \in QParams : \E ft \in FormTypeParams : \E cik \in CikParams :
          \E df \in DateFromParams : \E dt \in DateToParams : \E lim \in LimitParams :
              apiReq' = [pc |-> "received", path |-> "/api/v1/filings/search",
                         q |-> StripParam(q), form_type |-> StripParam(ft),
                         cik |-> StripParam(cik), date_from |-> StripParam(df),
                         date_to |-> StripParam(dt), limit |-> ParseLimit(lim)]
       \/ apiReq' = [pc |-> "received", path |-> "/api/v1/admin/jobs",
                     q |-> "", form_type |-> "", cik |-> "", date_from |-> "",
                     date_to |-> "", limit |-> DefaultLimit]
    /\ apiCount' = apiCount + 1
    /\ apiResp' = NoResponse
    /\ UNCHANGED <<apiStore, apiEfts>>
    /\ UNCHANGED otherThanApi

\* filings_search, from the query on.
FilingsSearch(req) ==
    IF \/ req.date_from # "" /\ DateFromIso(req.date_from) = 0
       \/ req.date_to # "" /\ DateFromIso(req.date_to) = 0
    THEN apiResp' = HtmlResponse(500) /\ UNCHANGED apiEfts
    ELSE \E rows \in LocalRows(apiStore, req) :
            IF LocalRowsFound(rows)
            THEN /\ apiResp' = JsonResponse(200, SearchKeys, "local", rows)
                 /\ UNCHANGED apiEfts
            ELSE IF req.q = ""
            THEN /\ apiResp' = JsonResponse(200, SearchKeys, "local", {})
                 /\ UNCHANGED apiEfts
            ELSE /\ apiEfts' = apiEfts + 1
                 /\ \E out \in EftsOutcomes :
                        apiResp' =
                            CASE out = "HTTPError" -> HtmlResponse(500)
                              [] out = "hits" ->
                                     JsonResponse(200, SearchKeys, "efts", {"hit"})
                              [] OTHER ->
                                     JsonResponse(200, SearchKeys, "efts", {})

\* Flask dispatches the request and sends what the view, or the error
\* handler, returns.
ApiRespond ==
    /\ apiReq.pc = "received"
    /\ IF apiReq.path \notin ApiV1Routes
       THEN apiResp' = HtmlResponse(404) /\ UNCHANGED apiEfts
       ELSE IF apiReq.path = "/api/v1/admin/jobs"
       THEN apiResp' = GetJobs /\ UNCHANGED apiEfts
       ELSE FilingsSearch(apiReq)
    /\ apiReq' = [apiReq EXCEPT !.pc = "idle"]
    /\ UNCHANGED <<apiStore, apiCount>>
    /\ UNCHANGED otherThanApi

ApiNext ==
    \/ ApiReceive
    \/ ApiRespond

SpecApi == ApiInit /\ [][ApiNext]_vars

\* C22: every response of /api/v1/filings/search and /api/v1/admin/jobs is a
\* JSON object whose keys are ok, data, error and meta.
C22_EveryResponseEnvelope ==
    apiResp.pc = "sent" =>
        /\ apiResp.mimetype = "application/json"
        /\ apiResp.keys = EnvelopeKeys

\* A filing matches a search when it has the form type asked for, its URLs
\* carry the CIK asked for, and its filing date lies in the range asked for.
CikDigits(cik) == IF cik = "0000320193" THEN "320193" ELSE "None"

Matches(row, req) ==
    /\ (req.form_type # "" => row.form_type = req.form_type)
    /\ (req.cik # "" => CikDigits(req.cik) # "None" /\ row.url_cik = CikDigits(req.cik))
    /\ (req.date_from # "" =>
            \E k \in DOMAIN IsoDates :
                IsoDates[k] = req.date_from /\ row.filing_date # 0 /\ row.filing_date >= k)
    /\ (req.date_to # "" =>
            \E k \in DOMAIN IsoDates :
                IsoDates[k] = req.date_to /\ row.filing_date # 0 /\ row.filing_date <= k)

SearchAnswered ==
    /\ apiReq.pc = "received"
    /\ apiReq.path = "/api/v1/filings/search"
    /\ apiReq'.pc = "idle"

\* C23: a search calls EFTS only when no filing of the local store matches
\* it; when filings match, EFTS is not called and the results are matching
\* filings of the local store.
C23_EftsOnlyWithoutLocalMatch ==
    [][SearchAnswered =>
          /\ (apiEfts' # apiEfts => ~\E r \in apiStore : Matches(r, apiReq))
          /\ ((\E r \in apiStore : Matches(r, apiReq)) =>
                  /\ apiEfts' = apiEfts
                  /\ apiResp'.source = "local"
                  /\ apiResp'.results # {}
                  /\ apiResp'.results \subseteq apiStore)]_vars

\* EFTS answered an earlier search, and the search just answered, which
\* carries a keyword, got matching local filings.
C23_Witness ==
    /\ apiEfts = 1
    /\ apiCount = 2
    /\ apiReq.pc = "idle"
    /\ apiReq.q # ""
    /\ apiResp.source = "local"
    /\ apiResp.results # {}
    /\ \E r \in apiStore : Matches(r, apiReq)

\* ---------------------------------------------------------------------------
\* Further properties of the ingestion (Parts 2 to 4).
\* ---------------------------------------------------------------------------

\* The key a fact row is stored under.
KeyOfRow(r) == <<r.entity_id, r.date_id, r.value_name_id>>

HasKey(store, k) == \E r \in store.daily_values : KeyOfRow(r) = k

NewMarkers == LoadProcessedFileKeys(db') \ LoadProcessedFileKeys(db)

\* C24: a marker reaches the committed store only in the commit of its
\* file's transaction, which puts a row under the key of every fact row the
\* worker planned for the file into the committed store with it; no marker
\* and no fact row ever leaves the committed store; and a worker that is
\* killed, wherever it is, leaves the committed store as it was.
C24_MarkerOnlyWithFacts ==
    /\ [][\A k \in NewMarkers :
            \E w \in Workers :
                /\ pc[w] = "commit" /\ CurKey(w) = k /\ lock = w
                /\ \A j \in DOMAIN cur[w].rows :
                       HasKey(db', KeyOfRow(cur[w].rows[j]))]_vars
    /\ [][/\ LoadProcessedFileKeys(db) \subseteq LoadProcessedFileKeys(db')
          /\ \A r \in db.daily_values : HasKey(db', KeyOfRow(r))]_vars
    /\ [][\A w \in Workers :
            (pc'[w] = "killed" /\ pc[w] # "killed" /\ run' = run) => db' = db]_vars

\* A worker was killed while it held the transaction of a file with planned
\* rows; another file's marker is committed with its facts, the killed
\* worker's file has none.
C24_Witness ==
    \E w \in Workers :
        /\ pc[w] = "killed"
        /\ cur[w].rows # <<>>
        /\ CurKey(w) \notin LoadProcessedFileKeys(db)
        /\ LoadProcessedFileKeys(db) # {}
        /\ db.daily_values # {}

\* The entity, identifier and metadata rows a commit adds to the committed
\* store, by the entity they belong to.
NewEntityIds ==
    {r.id : r \in db'.entities \ db.entities}
        \cup {r.entity_id : r \in db'.identifiers \ db.identifiers}
        \cup {r.entity_id : r \in db'.metadata \ db.metadata}

\* C25: the commit of a file's transaction adds entity, identifier and
\* metadata rows of that file's entity only: nothing written while an earlier
\* file was handled, and then skipped or recorded as errored, comes along.
C25_SkippedLeavesNothing ==
    [][\A w \in Workers :
          (pc[w] = "commit" /\ lock = w /\ db' = txn /\ pc'[w] = "file")
              => NewEntityIds \subseteq {cur[w].eid}]_vars

\* The value stored under the key of row r is, in store2, what it is in r.
ValueKept(r, store2) ==
    /\ r \in store2.daily_values
    /\ \A o \in store2.daily_values : KeyOfRow(o) = KeyOfRow(r) => o.value = r.value

\* C26: a DailyValue row of the committed store is there, with its value,
\* after every step of every worker of every run, and a row a worker sees in
\* its own transaction keeps its value while the transaction lasts.
C26_ValueNeverChanged ==
    /\ [][\A r \in db.daily_values : ValueKept(r, db')]_vars
    /\ [][\A w \in Workers :
            (lock = w /\ lock' = w) =>
                \A r \in txn.daily_values : ValueKept(r, txn')]_vars

\* A file is about to be committed that planned a row under the key of a
\* committed row with another value; the transaction holds the committed row.
C26_Witness ==
    \E w \in Workers :
        /\ pc[w] = "commit"
        /\ \E j \in DOMAIN cur[w].rows : \E r \in db.daily_values :
               /\ KeyOfRow(r) = KeyOfRow(cur[w].rows[j])
               /\ r.value # cur[w].rows[j].value
               /\ r \in txn.daily_values

HasId(rows, id) == \E r \in rows : r.id = id

\* C30: whenever a worker is about to take a unit, date or value-name id
\* from its cache, or has the entity id of the file at hand from
\* get_entity_id_cached, a row with that id exists in the store as the worker
\* sees it.
C30_CachedIdsExist ==
    \A w \in Workers :
        /\ (pc[w] = "unit" /\ UnitKey(cur[w].unit_name) \in DOMAIN cache[w].unit)
               => HasId(View(w).units, cache[w].unit[UnitKey(cur[w].unit_name)])
        /\ (pc[w] = "dispatch" /\ ExtractCik(CurFile(w)) \in DOMAIN cache[w].entity)
               => HasId(View(w).entities, cur[w].eid)
        /\ (pc[w] = "date" /\ cur[w].pi <= Len(CurPoints(w))
            /\ CurPoint(w).date \in DOMAIN cache[w].date)
               => HasId(View(w).dates, cache[w].date[CurPoint(w).date])
        /\ (pc[w] = "vn"
            /\ <<CurPoint(w).value_name, cur[w].unit_id>> \in DOMAIN cache[w].vn)
               => HasId(View(w).value_names,
                        cache[w].vn[<<CurPoint(w).value_name, cur[w].unit_id>>])

\* ---------------------------------------------------------------------------
\* Further properties of the background jobs.
\* ---------------------------------------------------------------------------

\* C27: once request_stop() of the populate job has returned during a run,
\* the script of that run does not come to its end by itself: it is never
\* launched, or it is terminated.
C27_StoppedNeverCompletes ==
    [][jobImpl = "manager" =>
          \A i \in DOMAIN jobRun :
              (jobFlags.stop_requested /\ jobStop.pc = "idle"
               /\ jobRun[i].work = "running")
                  => jobRun'[i].work # "exited"]_vars

\* ---------------------------------------------------------------------------
\* Part 12.  The admin page (api/pages/admin.py) with its two jobs side by
\* side: populate_daily_values_job and recreate_sqlite_db_job, the module
\* level instances of api/jobs/manager.py.  Each job has its own lock and its
\* own JobState.  A handler is one action (the locked block of start() and
\* the start of the runner thread included); the runner threads advance one
\* statement group at a time.  pc = "none" means that no runner thread exists.
\* recreate_sqlite_db.main() is called without arguments in the runner: it
\* deletes the database files, or it leaves with an exception (argument
\* parsing, the confirmation prompt); both outcomes are allowed.
\* ---------------------------------------------------------------------------
MaxAdminRequests == 4

\* The texts the confirmation box is submitted with.
ConfirmTexts == {"RECREATE", " recreate ", "", "yes"}

\* (request.form.get("confirm") or "").strip().upper() == "RECREATE"
ConfirmOk(confirm) ==
    CASE confirm = "RECREATE"   -> TRUE
      [] confirm = " recreate " -> TRUE
      [] OTHER                  -> FALSE

IdlePopJob ==
    [running |-> FALSE, stop_requested |-> FALSE, proc |-> FALSE,
     error |-> FALSE, pc |-> "none", work |-> "none"]

IdleRecJob == [running |-> FALSE, error |-> FALSE, pc |-> "none"]

AdmInit ==
    /\ ShardIdle
    /\ IngestIdle
    /\ NormIdle
    /\ LimIdle
    /\ HttpIdle
    /\ JobIdle
    /\ SecIdle
    /\ PollIdle
    /\ ApiIdle
    /\ popJob = IdlePopJob
    /\ recJob = IdleRecJob
    /\ adminLeft = MaxAdminRequests

\* start(): with self._lock: if self._state.running: return False
StartAllowed(own, other) == ~own.running

\* POST /admin: populate_daily_values_job.start()
AdminPagePost ==
    /\ adminLeft > 0
    /\ adminLeft' = adminLeft - 1
    /\ popJob' = IF StartAllowed(popJob, recJob)
                 THEN [IdlePopJob EXCEPT !.running = TRUE, !.pc = "create_all"]
                 ELSE popJob
    /\ UNCHANGED recJob

\* POST /admin/recreate-db: without the confirmation text the error is set;
\* with it, recreate_sqlite_db_job.start()
AdminRecreateDb(confirm) ==
    /\ adminLeft > 0
    /\ adminLeft' = adminLeft - 1
    /\ recJob' = IF ~ConfirmOk(confirm)
                 THEN [recJob EXCEPT !.error = TRUE]
                 ELSE IF StartAllowed(recJob, popJob)
                 THEN [running |-> TRUE, error |-> FALSE, pc |-> "main"]
                 ELSE recJob
    /\ UNCHANGED popJob

\* POST /admin/stop-populate: request_stop() sets the flag and terminates
\* the subprocess it finds recorded.
AdminStopPopulate ==
    /\ adminLeft > 0
    /\ adminLeft' = adminLeft - 1
    /\ popJob' = [popJob EXCEPT
                     !.stop_requested = TRUE,
                     !.work = IF popJob.proc THEN AfterTerminate(@) ELSE @]
    /\ UNCHANGED recJob

\* The populate runner: Base.metadata.create_all(bind=engine)
PopCreateAll ==
    /\ popJob.pc = "create_all"
    /\ popJob' = [popJob EXCEPT !.pc = "check"]
    /\ UNCHANGED <<recJob, adminLeft>>

\* with self._lock: if self._state.stop_requested: return
PopCheckStop ==
    /\ popJob.pc = "check"
    /\ popJob' = [popJob EXCEPT !.pc = IF popJob.stop_requested THEN "finally"
                                       ELSE "launch"]
    /\ UNCHANGED <<recJob, adminLeft>>

\* proc = subprocess.Popen(cmd, ...)
PopLaunch ==
    /\ popJob.pc = "launch"
    /\ popJob' = [popJob EXCEPT !.pc = "set_proc", !.work = "running"]
    /\ UNCHANGED <<recJob, adminLeft>>

\* with self._lock: self._proc = proc
PopSetProc ==
    /\ popJob.pc = "set_proc"
    /\ popJob' = [popJob EXCEPT !.pc = "wait", !.proc = TRUE]
    /\ UNCHANGED <<recJob, adminLeft>>

\* populate_daily_values.py comes to its end by itself.
PopWorkEnds ==
    /\ popJob.work = "running"
    /\ popJob' = [popJob EXCEPT !.work = "exited"]
    /\ UNCHANGED <<recJob, adminLeft>>

\* rc = proc.wait(); a non-zero exit code sets the error.
PopWaitReturns ==
    /\ popJob.pc = "wait"
    /\ popJob.work \in {"exited", "terminated"}
    /\ popJob' = [popJob EXCEPT !.pc = "finally",
                                !.error = popJob.work = "terminated"]
    /\ UNCHANGED <<recJob, adminLeft>>

\* finally: _proc = None, running = False, ended_at = now; the thread ends.
PopFinally ==
    /\ popJob.pc = "finally"
    /\ popJob' = [popJob EXCEPT !.pc = "none", !.running = FALSE, !.proc = FALSE]
    /\ UNCHANGED <<recJob, adminLeft>>

\* The recreate runner: recreate_sqlite_db.main() deletes the database files
\* and returns, or leaves with an exception that sets the error.
RecMain ==
    /\ recJob.pc = "main"
    /\ \E raised \in BOOLEAN :
           recJob' = [recJob EXCEPT !.pc = "finally", !.error = raised]
    /\ UNCHANGED <<popJob, adminLeft>>

\* finally: running = False, ended_at = now; the thread ends.
RecFinally ==
    /\ recJob.pc = "finally"
    /\ recJob' = [recJob EXCEPT !.pc = "none", !.running = FALSE]
    /\ UNCHANGED <<popJob, adminLeft>>

AdmNext ==
    /\ \/ AdminPagePost
       \/ \E confirm \in ConfirmTexts : AdminRecreateDb(confirm)
       \/ AdminStopPopulate
       \/ PopCreateAll
       \/ PopCheckStop
       \/ PopLaunch
       \/ PopSetProc
       \/ PopWorkEnds
       \/ PopWaitReturns
       \/ PopFinally
       \/ RecMain
       \/ RecFinally
    /\ UNCHANGED otherThanAdm

SpecAdmin == AdmInit /\ [][AdmNext]_vars

\* C28: the recreate-DB job and the populate job are never in progress at the
\* same time, and a start request for one of them made while the other is
\* running starts nothing.
C28_NeverBothInProgress ==
    /\ [](~(popJob.running /\ recJob.running))
    /\ [][(~popJob.running /\ popJob'.running) => ~recJob.running]_vars
    /\ [][(~recJob.running /\ recJob'.running) => ~popJob.running]_vars

\* ---------------------------------------------------------------------------
\* A further property of _request.
\* ---------------------------------------------------------------------------

\* The longest a fetch with max_attempts attempts may wait if no sleep is
\* longer than the backoff cap.
WaitBound(max_attempts) ==
    IF max_attempts <= 1 THEN 0 ELSE (max_attempts - 1) * CapDelay

\* C29: the time a fetch has slept between its attempts never exceeds
\* (max_attempts - 1) times the backoff cap, whatever the server sends.
C29_WaitBounded == httpSlept <= WaitBound(httpMax)

====
